---- MODULE Spec2Model ----
(***************************************************************************)
(* Model of the sales reconciliation pass of                               *)
(* src/data_transformation/sales_to_bq/main.py: the discount model, the    *)
(* cost and profit calculator, the row assembler and the hand-off of the   *)
(* two fact rows to the warehouse sink (process_pubsub_message).           *)
(*                                                                         *)
(* Numbers: the code computes with Python floats.  The model computes with *)
(* exact rationals <<n, d>> (d > 0, lowest terms).  Float rounding (a      *)
(* relative error of 2^-53 per operation) is not modelled; a division by   *)
(* zero raises ZeroDivisionError, as Python's float division does.         *)
(* Strings that the code parses are sequences of one-character strings.    *)
(***************************************************************************)
EXTENDS Integers, Sequences, FiniteSets, TLC

(***************************************************************************)
(* Bounds of the model.                                                    *)
(***************************************************************************)
MaxLen == 3        \* longest enumerated discount field (characters)
MaxItems == 2      \* most line items of an order
MaxCategoria == 7  \* longest enumerated category string (characters)

(***************************************************************************)
(* Exact rational arithmetic standing for Python float arithmetic.         *)
(***************************************************************************)
Abs(i) == IF i < 0 THEN -i ELSE i

RECURSIVE GCD(_, _)
GCD(a, b) == IF b = 0 THEN a ELSE GCD(b, a % b)

Norm(n, d) ==
    LET s == IF d < 0 THEN -1 ELSE 1
        g == GCD(Abs(n), Abs(d))
    IN  <<(s * n) \div g, (s * d) \div g>>

R(i) == <<i, 1>>
RZero == R(0)
RAdd(a, b) == Norm(a[1] * b[2] + b[1] * a[2], a[2] * b[2])
RSub(a, b) == Norm(a[1] * b[2] - b[1] * a[2], a[2] * b[2])
RMul(a, b) == Norm(a[1] * b[1], a[2] * b[2])
\* a / b for b # 0; the callers raise ZeroDivisionError for b = 0.
RDiv(a, b) == Norm(a[1] * b[2], a[2] * b[1])
RLt(a, b) == a[1] * b[2] < b[1] * a[2]
RLe(a, b) == a[1] * b[2] <= b[1] * a[2]
RAbs(a) == <<Abs(a[1]), a[2]>>
\* Mutant of PyMax0: the floor at zero is left out.
PyMax0_unfloored(x) == x

\* Python's max(0, x): the first argument is kept unless x > 0.
PyMax0(x) == IF RLt(RZero, x) THEN x ELSE RZero

(***************************************************************************)
(* Strings as sequences of characters, and the str methods the code uses.  *)
(***************************************************************************)
DigitVal ==
    ("0" :> 0) @@ ("1" :> 1) @@ ("2" :> 2) @@ ("3" :> 3) @@ ("4" :> 4) @@
    ("5" :> 5) @@ ("6" :> 6) @@ ("7" :> 7) @@ ("8" :> 8) @@ ("9" :> 9)
IsDigit(c) == c \in DOMAIN DigitVal

\* c in s
Contains(s, c) == \E i \in 1..Len(s) : s[i] = c

RECURSIVE Remove(_, _)
\* s.replace(c, '')
Remove(s, c) ==
    IF s = <<>> THEN <<>>
    ELSE IF Head(s) = c THEN Remove(Tail(s), c)
    ELSE <<Head(s)>> \o Remove(Tail(s), c)

\* s.replace(a, b) for single characters a, b
Replace(s, a, b) == [i \in 1..Len(s) |-> IF s[i] = a THEN b ELSE s[i]]

RECURSIVE Pow10(_)
Pow10(k) == IF k = 0 THEN 1 ELSE 10 * Pow10(k - 1)

RECURSIVE DigitsValue(_)
DigitsValue(s) ==
    IF s = <<>> THEN 0
    ELSE DigitsValue(SubSeq(s, 1, Len(s) - 1)) * 10 + DigitVal[s[Len(s)]]

\* The outcome of an expression that may raise.
Val(v) == [ok |-> TRUE, val |-> v]
Raise(e) == [ok |-> FALSE, err |-> e]

\* float(s) for a string of digits, '.', a sign and other characters:
\* [sign] digits [. digits] with at least one digit, else ValueError.
\* (Exponents, inf/nan, underscores and blanks are outside the alphabet.)
PyFloat(s) ==
    LET signed == Len(s) > 0 /\ s[1] \in {"-", "+"}
        body == IF signed THEN Tail(s) ELSE s
        dots == {i \in 1..Len(body) : body[i] = "."}
        wellFormed ==
            /\ \A i \in 1..Len(body) : IsDigit(body[i]) \/ body[i] = "."
            /\ Cardinality(dots) <= 1
            /\ \E i \in 1..Len(body) : IsDigit(body[i])
        digits == Remove(body, ".")
        fracLen == IF dots = {} THEN 0
                   ELSE Len(body) - (CHOOSE i \in dots : TRUE)
        mag == DigitsValue(digits)
        sgn == IF signed /\ s[1] = "-" THEN -1 ELSE 1
    IN  IF wellFormed THEN Val(Norm(sgn * mag, Pow10(fracLen)))
        ELSE Raise("ValueError")

(***************************************************************************)
(* Date normalisation: datetime.strptime(date_str, "%d/%m/%Y") and         *)
(* strftime("%Y-%m-%d").                                                   *)
(***************************************************************************)
\* str.split(c): the fields of s between the occurrences of c.
RECURSIVE SplitOn(_, _)
SplitOn(s, c) ==
    IF ~Contains(s, c) THEN <<s>>
    ELSE LET i == CHOOSE i \in 1..Len(s) : s[i] = c /\ \A j \in 1..(i - 1) : s[j] # c
         IN  <<SubSeq(s, 1, i - 1)>> \o SplitOn(SubSeq(s, i + 1, Len(s)), c)

AllDigits(f) == \A i \in 1..Len(f) : IsDigit(f[i])
\* strptime's %d: 3[0-1] | [1-2]\d | 0[1-9] | [1-9] | blank [1-9]
IsDayField(f) ==
    \/ Len(f) = 1 /\ AllDigits(f) /\ DigitsValue(f) >= 1
    \/ Len(f) = 2 /\ AllDigits(f) /\ DigitsValue(f) \in 1..31
    \/ Len(f) = 2 /\ f[1] = " " /\ IsDigit(f[2]) /\ DigitVal[f[2]] >= 1
\* strptime's %m: 1[0-2] | 0[1-9] | [1-9]
IsMonthField(f) ==
    \/ Len(f) = 1 /\ AllDigits(f) /\ DigitsValue(f) >= 1
    \/ Len(f) = 2 /\ AllDigits(f) /\ DigitsValue(f) \in 1..12
\* strptime's %Y: \d\d\d\d
IsYearField(f) == Len(f) = 4 /\ AllDigits(f)
FieldValue(f) == DigitsValue(Remove(f, " "))

IsLeap(y) == y % 4 = 0 /\ (y % 100 # 0 \/ y % 400 = 0)
DaysInMonth(m, y) ==
    IF m = 2 THEN (IF IsLeap(y) THEN 29 ELSE 28)
    ELSE IF m \in {4, 6, 9, 11} THEN 30 ELSE 31

DigitChar(n) == CHOOSE c \in DOMAIN DigitVal : DigitVal[c] = n
\* The decimal digits of n, and n zero-padded to a width.
RECURSIVE Decimal(_)
Decimal(n) == IF n < 10 THEN <<DigitChar(n)>>
              ELSE Decimal(n \div 10) \o <<DigitChar(n % 10)>>
RECURSIVE ZeroPad(_, _)
ZeroPad(digits, width) == IF Len(digits) >= width THEN digits
                          ELSE ZeroPad(<<"0">> \o digits, width)

\* strftime("%Y-%m-%d").  The C library formats %Y: glibc does not pad a
\* year below 1000, other libraries (and later interpreters) pad it to four
\* digits; padded says which the build does.
StrfTime(y, m, d, padded) ==
    (IF padded THEN ZeroPad(Decimal(y), 4) ELSE Decimal(y))
    \o <<"-">> \o ZeroPad(Decimal(m), 2) \o <<"-">> \o ZeroPad(Decimal(d), 2)

\* main.py 78-86 (and gcs_to_bq/main.py 213-221): ValueError (no match,
\* unconverted data, a day the month does not have, the year 0) is caught
\* and the string returned as it came.
transform_date_format(date_str, padded) ==
    LET parts == SplitOn(date_str, "/")
    IN  IF Len(parts) # 3 THEN date_str
        ELSE IF ~(IsDayField(parts[1]) /\ IsMonthField(parts[2]) /\ IsYearField(parts[3]))
        THEN date_str
        ELSE IF FieldValue(parts[3]) = 0 THEN date_str
        ELSE IF FieldValue(parts[1]) >
                    DaysInMonth(FieldValue(parts[2]), FieldValue(parts[3]))
        THEN date_str
        ELSE StrfTime(FieldValue(parts[3]), FieldValue(parts[2]),
                      FieldValue(parts[1]), padded)

(***************************************************************************)
(* Discount model: the order-level discount.                               *)
(***************************************************************************)
\* Mutant of calculate_pedido_discount: the percentage is not divided by 100.
calculate_pedido_discount_undivided(desconto_pedido_str, total_produtos) ==
    IF Contains(desconto_pedido_str, "%")
    THEN LET pct == PyFloat(Remove(desconto_pedido_str, "%"))
             tot == PyFloat(total_produtos)
         IN  IF ~pct.ok \/ ~tot.ok THEN RZero
             ELSE PyMax0(RMul(pct.val, tot.val))
    ELSE LET abs == PyFloat(Replace(desconto_pedido_str, ",", "."))
         IN  IF ~abs.ok THEN RZero ELSE PyMax0(abs.val)

\* Mutant of calculate_pedido_discount: the handler of ValueError falls
\* back to the products' total when that one parses.
calculate_pedido_discount_fallback_total(desconto_pedido_str, total_produtos) ==
    LET tot == PyFloat(total_produtos)
        fallback == IF tot.ok THEN PyMax0(tot.val) ELSE RZero
    IN  IF Contains(desconto_pedido_str, "%")
        THEN LET pct == PyFloat(Remove(desconto_pedido_str, "%"))
             IN  IF ~pct.ok \/ ~tot.ok THEN fallback
                 ELSE PyMax0(RMul(RDiv(pct.val, R(100)), tot.val))
        ELSE LET abs == PyFloat(Replace(desconto_pedido_str, ",", "."))
             IN  IF ~abs.ok THEN fallback ELSE PyMax0(abs.val)

\* main.py 120-132: ValueError is caught and turned into 0.0.
calculate_pedido_discount(desconto_pedido_str, total_produtos) ==
    IF Contains(desconto_pedido_str, "%")
    THEN LET pct == PyFloat(Remove(desconto_pedido_str, "%"))
             tot == PyFloat(total_produtos)
         IN  IF ~pct.ok \/ ~tot.ok THEN RZero
             ELSE PyMax0(RMul(RDiv(pct.val, R(100)), tot.val))
    ELSE LET abs == PyFloat(Replace(desconto_pedido_str, ",", "."))
         IN  IF ~abs.ok THEN RZero ELSE PyMax0(abs.val)

\* Mutant of extract_total_discount: the decimal comma is not replaced.
extract_total_discount_no_comma(pdv_pedido_data) ==
    LET desconto == pdv_pedido_data.desconto
    IN  IF Contains(desconto, "%")
        THEN LET pct == PyFloat(Remove(desconto, "%"))
                 tot == PyFloat(pdv_pedido_data.totalProdutos)
             IN  IF ~pct.ok \/ ~tot.ok THEN RZero
                 ELSE PyMax0(RMul(RDiv(pct.val, R(100)), tot.val))
        ELSE LET abs == PyFloat(desconto)
             IN  IF ~abs.ok THEN RZero ELSE PyMax0(abs.val)

\* Mutant of extract_total_discount: a decimal comma is accepted in a
\* percentage too.
extract_total_discount_comma_percent(pdv_pedido_data) ==
    LET desconto == pdv_pedido_data.desconto
    IN  IF Contains(desconto, "%")
        THEN LET pct == PyFloat(Replace(Remove(desconto, "%"), ",", "."))
                 tot == PyFloat(pdv_pedido_data.totalProdutos)
             IN  IF ~pct.ok \/ ~tot.ok THEN RZero
                 ELSE PyMax0(RMul(RDiv(pct.val, R(100)), tot.val))
        ELSE LET abs == PyFloat(Replace(desconto, ",", "."))
             IN  IF ~abs.ok THEN RZero ELSE PyMax0(abs.val)

\* main.py 142-154: the same computation on the payload's own fields.
extract_total_discount(pdv_pedido_data) ==
    LET desconto == pdv_pedido_data.desconto
    IN  IF Contains(desconto, "%")
        THEN LET pct == PyFloat(Remove(desconto, "%"))
                 tot == PyFloat(pdv_pedido_data.totalProdutos)
             IN  IF ~pct.ok \/ ~tot.ok THEN RZero
                 ELSE PyMax0(RMul(RDiv(pct.val, R(100)), tot.val))
        ELSE LET abs == PyFloat(Replace(desconto, ",", "."))
             IN  IF ~abs.ok THEN RZero ELSE PyMax0(abs.val)

(***************************************************************************)
(* Cost and profit calculator.  An item is a record [idProduto, valor,     *)
(* quantidade, desconto]; a product record is [id, preco_custo].  float()  *)
(* of a numeric field is the rational R(field).                            *)
(***************************************************************************)
\* next((p for p in produto_data if p[..]['id'] == produto_id), None)
NoProduto == [found |-> FALSE]
FindProduto(produto_data, produto_id) ==
    LET hits == {i \in 1..Len(produto_data) : produto_data[i].id = produto_id}
    IN  IF hits = {} THEN NoProduto
        ELSE LET first == CHOOSE i \in hits : \A j \in hits : i <= j
             IN  [found |-> TRUE, produto |-> produto_data[first]]

RECURSIVE TotalCostOf(_, _)
TotalCostOf(produto_data, itens) ==
    IF itens = <<>> THEN RZero
    ELSE LET item == itens[Len(itens)]
             rest == TotalCostOf(produto_data, SubSeq(itens, 1, Len(itens) - 1))
             produto == FindProduto(produto_data, item.idProduto)
         IN  IF produto.found
             THEN RAdd(rest, RMul(R(produto.produto.preco_custo), R(item.quantidade)))
             ELSE rest

RECURSIVE TotalUnitCostOf(_, _)
TotalUnitCostOf(produto_data, itens) ==
    IF itens = <<>> THEN RZero
    ELSE LET item == itens[Len(itens)]
             rest == TotalUnitCostOf(produto_data, SubSeq(itens, 1, Len(itens) - 1))
             produto == FindProduto(produto_data, item.idProduto)
         IN  IF produto.found THEN RAdd(rest, R(produto.produto.preco_custo)) ELSE rest

\* Mutant of calculate_total_product_cost: the quantity is left out.
calculate_total_product_cost_per_unit(produto_data, pdv_pedido_data) ==
    TotalUnitCostOf(produto_data, pdv_pedido_data.itens)

\* main.py 89-100
calculate_total_product_cost(produto_data, pdv_pedido_data) ==
    TotalCostOf(produto_data, pdv_pedido_data.itens)

\* 1 - float(item['desconto']) / 100
OneMinusPct(desconto) == RSub(R(1), RDiv(R(desconto), R(100)))

RECURSIVE TotalWithoutDiscountOf(_)
TotalWithoutDiscountOf(itens) ==
    IF itens = <<>> THEN Val(RZero)
    ELSE LET item == itens[Len(itens)]
             rest == TotalWithoutDiscountOf(SubSeq(itens, 1, Len(itens) - 1))
             den == OneMinusPct(item.desconto)
         IN  IF ~rest.ok THEN rest
             ELSE IF den = RZero THEN Raise("ZeroDivisionError")
             ELSE Val(RAdd(rest.val, RDiv(R(item.valor), den)))

\* Mutant of calculate_total_product_value_without_discount: an item
\* discounted by 100% is skipped instead of dividing by zero.
calculate_total_product_value_without_discount_skipping(pdv_pedido_data) ==
    LET Divisible(item) == OneMinusPct(item.desconto) # RZero
    IN  TotalWithoutDiscountOf(SelectSeq(pdv_pedido_data.itens, Divisible))

\* main.py 103-110: the sum of valor / (1 - desconto/100) over the items.
calculate_total_product_value_without_discount(pdv_pedido_data) ==
    TotalWithoutDiscountOf(pdv_pedido_data.itens)

RECURSIVE TotalPreDiscountOf(_)
TotalPreDiscountOf(itens) ==
    IF itens = <<>> THEN RZero
    ELSE RAdd(TotalPreDiscountOf(SubSeq(itens, 1, Len(itens) - 1)),
              RMul(R(itens[Len(itens)].valor), R(itens[Len(itens)].quantidade)))

RECURSIVE TotalValorOf(_)
TotalValorOf(itens) ==
    IF itens = <<>> THEN RZero
    ELSE RAdd(TotalValorOf(SubSeq(itens, 1, Len(itens) - 1)), R(itens[Len(itens)].valor))

\* Mutant of calculate_total_pre_discount_value: the quantity is left out.
calculate_total_pre_discount_value_per_unit(pdv_pedido_data) ==
    TotalValorOf(pdv_pedido_data.itens)

\* main.py 135-139
calculate_total_pre_discount_value(pdv_pedido_data) ==
    TotalPreDiscountOf(pdv_pedido_data.itens)

\* Mutant of calculate_proportional_discount: floor division (//) for the
\* item's share.
calculate_proportional_discount_floordiv(item_pre_discount_value, total_pre_discount_value, total_discount) ==
    IF total_pre_discount_value = RZero THEN Raise("ZeroDivisionError")
    ELSE Val(RMul(total_discount,
                  R((item_pre_discount_value[1] * total_pre_discount_value[2])
                    \div (item_pre_discount_value[2] * total_pre_discount_value[1]))))

\* main.py 157-160
calculate_proportional_discount(item_pre_discount_value, total_pre_discount_value, total_discount) ==
    IF total_pre_discount_value = RZero THEN Raise("ZeroDivisionError")
    ELSE Val(RMul(total_discount,
                  RDiv(item_pre_discount_value, total_pre_discount_value)))

\* Mutant of calculate_item_discount: the percentage is taken of the
\* discounted unit value.
calculate_item_discount_of_valor(item_valor, item_desconto) ==
    LET den == RSub(R(1), RDiv(item_desconto, R(100)))
    IN  IF den = RZero THEN Raise("ZeroDivisionError")
        ELSE Val(RMul(item_valor, RDiv(item_desconto, R(100))))

\* main.py 163-165
calculate_item_discount(item_valor, item_desconto) ==
    LET den == RSub(R(1), RDiv(item_desconto, R(100)))
    IN  IF den = RZero THEN Raise("ZeroDivisionError")
        ELSE Val(RSub(RDiv(item_valor, den), item_valor))

\* main.py 186: float(item['valor']) / (1 - float(item['desconto']) / 100)
ValorSemDescontoUnd(item) ==
    IF OneMinusPct(item.desconto) = RZero THEN Raise("ZeroDivisionError")
    ELSE Val(RDiv(R(item.valor), OneMinusPct(item.desconto)))

\* Mutant of DescontoProduto: the quantity is left out.
DescontoProduto_per_unit(desconto_produto_und, produto_quantidade) ==
    desconto_produto_und

\* main.py 188: desconto_produto = desconto_produto_und * produto_quantidade
DescontoProduto(desconto_produto_und, produto_quantidade) ==
    RMul(desconto_produto_und, produto_quantidade)

\* Mutant of ValorComDescontoUnd: the order-level discount is left out.
ValorComDescontoUnd_no_pedido(sem_desconto_und, desconto_produto_und, desconto_pedido_und) ==
    RSub(sem_desconto_und, desconto_produto_und)

\* main.py 194: valor_sem_desconto_und - desconto_produto_und - desconto_pedido_und
ValorComDescontoUnd(sem_desconto_und, desconto_produto_und, desconto_pedido_und) ==
    RSub(RSub(sem_desconto_und, desconto_produto_und), desconto_pedido_und)

\* The separator of the principal and the secondary category.
Separator == <<" ", ">", ">", " ">>

\* str.find(sub): the 0-based index of the first occurrence, -1 for none.
PyFind(s, sub) ==
    LET at == {i \in 1..(Len(s) - Len(sub) + 1) :
                   SubSeq(s, i, i + Len(sub) - 1) = sub}
    IN  IF at = {} THEN -1
        ELSE (CHOOSE i \in at : \A j \in at : i <= j) - 1

\* str.lstrip() and str.rstrip() of the blanks.
RECURSIVE LStrip(_)
LStrip(s) == IF s # <<>> /\ Head(s) = " " THEN LStrip(Tail(s)) ELSE s
RECURSIVE RStrip(_)
RStrip(s) == IF s # <<>> /\ s[Len(s)] = " " THEN RStrip(SubSeq(s, 1, Len(s) - 1)) ELSE s
\* str.strip()
Strip(s) == RStrip(LStrip(s))

\* Mutant of ProdutoCategoria: the secondary category is not stripped.
ProdutoCategoria_unstripped(categoria) ==
    LET split_index == PyFind(categoria, Separator)
    IN  IF split_index # -1
        THEN [produto_categoria_principal |-> Strip(SubSeq(categoria, 1, split_index)),
              produto_categoria_secundaria |->
                  SubSeq(categoria, split_index + Len(Separator) + 1, Len(categoria))]
        ELSE [produto_categoria_principal |-> categoria,
              produto_categoria_secundaria |-> <<>>]

\* main.py 177-184: the principal and the secondary category of a product.
ProdutoCategoria(categoria) ==
    LET split_index == PyFind(categoria, Separator)
    IN  IF split_index # -1
        THEN [produto_categoria_principal |-> Strip(SubSeq(categoria, 1, split_index)),
              produto_categoria_secundaria |->
                  Strip(SubSeq(categoria, split_index + Len(Separator) + 1,
                               Len(categoria)))]
        ELSE [produto_categoria_principal |-> categoria,
              produto_categoria_secundaria |-> <<>>]

\* main.py 191-220: the figures of a matched item from its unit figures.
ItemData(produto_id, preco_custo, produto_quantidade, valor_sem_desconto_und, desconto_produto_und, desconto_pedido) ==
    LET desconto_produto == DescontoProduto(desconto_produto_und, produto_quantidade)
        desconto_pedido_und == RDiv(desconto_pedido, produto_quantidade)
        valor_com_desconto_und ==
            ValorComDescontoUnd(valor_sem_desconto_und, desconto_produto_und,
                                desconto_pedido_und)
        total_produto_valor_faturado ==
            RMul(valor_com_desconto_und, produto_quantidade)
        total_produto_valor_custo == RMul(preco_custo, produto_quantidade)
    IN  [matched |-> TRUE,
         produto_id |-> produto_id,
         produto_valor_custo_und |-> preco_custo,
         produto_quantidade |-> produto_quantidade,
         valor_sem_desconto_und |-> valor_sem_desconto_und,
         valor_com_desconto_und |-> valor_com_desconto_und,
         produto_valor_lucro_und |-> RSub(valor_com_desconto_und, preco_custo),
         desconto_produto_und |-> desconto_produto_und,
         desconto_produto |-> desconto_produto,
         desconto_pedido_und |-> desconto_pedido_und,
         desconto_pedido |-> desconto_pedido,
         desconto_total_und |-> RAdd(desconto_produto_und, desconto_pedido_und),
         desconto_total |-> RAdd(desconto_produto, desconto_pedido),
         total_produto_valor_sem_desconto |->
             RMul(valor_sem_desconto_und, produto_quantidade),
         total_produto_valor_faturado |-> total_produto_valor_faturado,
         total_produto_valor_custo |-> total_produto_valor_custo,
         total_produto_valor_lucro |->
             RSub(total_produto_valor_faturado, total_produto_valor_custo)]

\* main.py 172-220: a matched item.  The divisions of lines 186, 187 (by
\* 1 - desconto/100), 190 (by the total pre-discount value) and 191 (by the
\* quantity) raise ZeroDivisionError, in that order.
MatchedItem(item, preco_custo, total_pre_discount_value, total_discount) ==
    IF ~ValorSemDescontoUnd(item).ok THEN Raise("ZeroDivisionError")
    ELSE IF ~calculate_item_discount(R(item.valor), R(item.desconto)).ok
    THEN Raise("ZeroDivisionError")
    ELSE IF ~calculate_proportional_discount(
                 RMul(R(item.valor), R(item.quantidade)),
                 total_pre_discount_value, total_discount).ok
    THEN Raise("ZeroDivisionError")
    ELSE IF item.quantidade = 0 THEN Raise("ZeroDivisionError")
    ELSE Val(ItemData(item.idProduto, R(preco_custo), R(item.quantidade),
                      ValorSemDescontoUnd(item).val,
                      calculate_item_discount(R(item.valor), R(item.desconto)).val,
                      calculate_proportional_discount(
                          RMul(R(item.valor), R(item.quantidade)),
                          total_pre_discount_value, total_discount).val))

\* main.py 168-221: None for an item without a product record, the item's
\* figures otherwise.
NoneItem == [matched |-> FALSE]

\* Mutant of process_item: an item of quantity 0 is skipped like an item
\* without a product record.
process_item_skipping_zero(item, produto_data, pdv_pedido_data, total_pre_discount_value, total_discount) ==
    IF ~FindProduto(produto_data, item.idProduto).found \/ item.quantidade = 0
    THEN Val(NoneItem)
    ELSE MatchedItem(item, FindProduto(produto_data, item.idProduto).produto.preco_custo,
                     total_pre_discount_value, total_discount)

process_item(item, produto_data, pdv_pedido_data, total_pre_discount_value, total_discount) ==
    IF ~FindProduto(produto_data, item.idProduto).found THEN Val(NoneItem)
    ELSE MatchedItem(item, FindProduto(produto_data, item.idProduto).produto.preco_custo,
                     total_pre_discount_value, total_discount)

(***************************************************************************)
(* Row assembler: the pure part of process_pubsub_message (main.py         *)
(* 319-359).  A message is [uuid, pdv_pedido_data, produto_data] with      *)
(* pdv_pedido_data = [id, desconto, totalProdutos, totalVenda, itens].     *)
(***************************************************************************)
\* main.py 253-290 (the columns the model keeps)
create_itens_pedido_row(uuid, timestamp, pedido_id, vendedor_nome, vendedor_id, item_data, source_id, processed_timestamp) ==
    [uuid |-> uuid,
     vendedor_nome |-> vendedor_nome,
     vendedor_id |-> vendedor_id,
     timestamp |-> timestamp,
     source_id |-> source_id,
     processed_timestamp |-> processed_timestamp,
     pedido_id |-> pedido_id,
     produto_id |-> item_data.produto_id,
     produto_valor_custo_und |-> item_data.produto_valor_custo_und,
     produto_valor_sem_desconto_und |-> item_data.valor_sem_desconto_und,
     produto_valor_com_desconto_und |-> item_data.valor_com_desconto_und,
     produto_valor_lucro_und |-> item_data.produto_valor_lucro_und,
     desconto_produto_und |-> item_data.desconto_produto_und,
     desconto_pedido_und |-> item_data.desconto_pedido_und,
     desconto_total_und |-> item_data.desconto_total_und,
     produto_quantidade |-> item_data.produto_quantidade,
     desconto_produto |-> item_data.desconto_produto,
     desconto_pedido |-> item_data.desconto_pedido,
     desconto_total |-> item_data.desconto_total,
     total_produto_valor_custo |-> item_data.total_produto_valor_custo,
     total_produto_valor_sem_desconto |-> item_data.total_produto_valor_sem_desconto,
     total_produto_valor_faturado |-> item_data.total_produto_valor_faturado,
     total_produto_valor_lucro |-> item_data.total_produto_valor_lucro]

\* Mutant of create_pedidos_row: the processing stamp of the order row is
\* the ingestion timestamp of the message.
create_pedidos_row_ingestion_stamp(uuid, timestamp, pedido_id, vendedor_nome, vendedor_id, valor_produtos_custo, valor_produtos_sem_desconto, total_desconto_produtos, desconto_pedido, desconto_total, valor_faturado, valor_lucro, source_id, processed_timestamp) ==
    [uuid |-> uuid,
     timestamp |-> timestamp,
     source_id |-> source_id,
     processed_timestamp |-> timestamp,
     pedido_id |-> pedido_id,
     vendedor_nome |-> vendedor_nome,
     vendedor_id |-> vendedor_id,
     valor_produtos_custo |-> valor_produtos_custo,
     valor_produtos_sem_desconto |-> valor_produtos_sem_desconto,
     desconto_produtos |-> total_desconto_produtos,
     desconto_pedido |-> desconto_pedido,
     desconto_total |-> desconto_total,
     valor_faturado |-> valor_faturado,
     valor_lucro |-> valor_lucro]

\* main.py 224-250 (the columns the model keeps)
create_pedidos_row(uuid, timestamp, pedido_id, vendedor_nome, vendedor_id, valor_produtos_custo, valor_produtos_sem_desconto, total_desconto_produtos, desconto_pedido, desconto_total, valor_faturado, valor_lucro, source_id, processed_timestamp) ==
    [uuid |-> uuid,
     timestamp |-> timestamp,
     source_id |-> source_id,
     processed_timestamp |-> processed_timestamp,
     pedido_id |-> pedido_id,
     vendedor_nome |-> vendedor_nome,
     vendedor_id |-> vendedor_id,
     valor_produtos_custo |-> valor_produtos_custo,
     valor_produtos_sem_desconto |-> valor_produtos_sem_desconto,
     desconto_produtos |-> total_desconto_produtos,
     desconto_pedido |-> desconto_pedido,
     desconto_total |-> desconto_total,
     valor_faturado |-> valor_faturado,
     valor_lucro |-> valor_lucro]

\* main.py 326: message_data['pedidos_pesquisa_data']['retorno']['pedidos'][0]['pedido'],
\* the first record of the order search, whatever order it is of.
PedidosPesquisa(message_data) == message_data.pedidos_pesquisa_data[1]

\* main.py 15: SOURCE_ID = os.environ.get('SOURCE_ID')
SOURCE_ID == "source"

\* main.py 347-354: the loop over the items; acc is
\* [total_desconto_produtos, itens_pedido_rows].
RECURSIVE ItemLoop(_, _, _, _, _, _)
RECURSIVE LoopStep(_, _, _, _, _, _, _)
ItemLoop(message_data, processed_timestamp, itens, total_pre_discount_value, total_discount, acc) ==
    IF itens = <<>> THEN Val(acc)
    ELSE LoopStep(message_data, processed_timestamp, itens, total_pre_discount_value,
                  total_discount, acc,
                  process_item(Head(itens), message_data.produto_data,
                               message_data.pdv_pedido_data,
                               total_pre_discount_value, total_discount))

\* main.py 348-354: one turn of the loop, item_data being process_item's outcome.
LoopStep(message_data, processed_timestamp, itens, total_pre_discount_value, total_discount, acc, item_data) ==
    IF ~item_data.ok THEN item_data
    ELSE IF ~item_data.val.matched
    THEN ItemLoop(message_data, processed_timestamp, Tail(itens),
                  total_pre_discount_value, total_discount, acc)
    ELSE ItemLoop(message_data, processed_timestamp, Tail(itens),
                  total_pre_discount_value, total_discount,
                  [total_desconto_produtos |->
                       RAdd(acc.total_desconto_produtos,
                            item_data.val.desconto_produto),
                   itens_pedido_rows |->
                       Append(acc.itens_pedido_rows,
                              create_itens_pedido_row(
                                  message_data.uuid, message_data.timestamp,
                                  message_data.pdv_pedido_data.id,
                                  PedidosPesquisa(message_data).nome_vendedor,
                                  PedidosPesquisa(message_data).id_vendedor,
                                  item_data.val, SOURCE_ID, processed_timestamp))])

\* Mutant of ValorFaturado: the invoiced total is recomputed from the items
\* and the order discount.
ValorFaturado_recomputed(pdv_pedido_data) ==
    RSub(calculate_total_pre_discount_value(pdv_pedido_data),
         extract_total_discount(pdv_pedido_data))

\* main.py 338: valor_faturado = float(pdv_pedido_data['totalVenda'])
ValorFaturado(pdv_pedido_data) == R(pdv_pedido_data.totalVenda)

\* main.py 339: valor_lucro = valor_faturado - valor_produtos_custo
ValorLucro(valor_faturado, valor_produtos_custo) ==
    RSub(valor_faturado, valor_produtos_custo)

\* Mutant of DescontoTotal: the order-level discount is left out.
DescontoTotal_produtos_only(total_desconto_produtos, desconto_pedido) ==
    total_desconto_produtos

\* main.py 355: desconto_total = total_desconto_produtos + desconto_pedido
DescontoTotal(total_desconto_produtos, desconto_pedido) ==
    RAdd(total_desconto_produtos, desconto_pedido)

\* The keys process_pubsub_message reads before it computes the totals
\* (main.py 322-336; 'itens' is read by calculate_total_product_cost, line
\* 92), and the ones it reads after them (338-341).
KeysReadFirst == {"uuid", "timestamp", "pdv_pedido_data", "produto_data",
                  "pedidos_pesquisa_data", "data", "numero", "id", "contato",
                  "nome_vendedor", "id_vendedor", "itens"}
KeysReadLater == {"totalVenda", "desconto", "totalProdutos", "formaPagamento"}

\* Mutant of Assemble: a key the payload lacks reads as None (dict.get)
\* instead of raising KeyError.
Assemble_get(message_data, processed_timestamp, valor_produtos_custo, sem_desconto, desconto_pedido, loop) ==
    IF ~sem_desconto.ok THEN sem_desconto
    ELSE IF ~loop.ok THEN loop
    ELSE Val([pedidos_rows |->
                  <<create_pedidos_row(
                        message_data.uuid, message_data.timestamp,
                        message_data.pdv_pedido_data.id,
                        PedidosPesquisa(message_data).nome_vendedor,
                        PedidosPesquisa(message_data).id_vendedor,
                        valor_produtos_custo, sem_desconto.val,
                        loop.val.total_desconto_produtos, desconto_pedido,
                        DescontoTotal(loop.val.total_desconto_produtos, desconto_pedido),
                        ValorFaturado(message_data.pdv_pedido_data),
                        ValorLucro(ValorFaturado(message_data.pdv_pedido_data),
                                   valor_produtos_custo),
                        SOURCE_ID, processed_timestamp)>>,
              itens_pedido_rows |-> loop.val.itens_pedido_rows])

\* main.py 322-359: the order row and the item rows, once every key has
\* been read and every calculator has returned; a KeyError or an exception
\* of a calculator ends the pass instead, whichever the code meets first.
Assemble(message_data, processed_timestamp, valor_produtos_custo, sem_desconto, desconto_pedido, loop) ==
    IF message_data.absent \in KeysReadFirst THEN Raise("KeyError")
    ELSE IF ~sem_desconto.ok THEN sem_desconto
    ELSE IF message_data.absent \in KeysReadLater THEN Raise("KeyError")
    ELSE IF ~loop.ok THEN loop
    ELSE Val([pedidos_rows |->
                  <<create_pedidos_row(
                        message_data.uuid, message_data.timestamp,
                        message_data.pdv_pedido_data.id,
                        PedidosPesquisa(message_data).nome_vendedor,
                        PedidosPesquisa(message_data).id_vendedor,
                        valor_produtos_custo, sem_desconto.val,
                        loop.val.total_desconto_produtos, desconto_pedido,
                        DescontoTotal(loop.val.total_desconto_produtos, desconto_pedido),
                        ValorFaturado(message_data.pdv_pedido_data),
                        ValorLucro(ValorFaturado(message_data.pdv_pedido_data),
                                   valor_produtos_custo),
                        SOURCE_ID, processed_timestamp)>>,
              itens_pedido_rows |-> loop.val.itens_pedido_rows])

\* main.py 319-359: the rows of one message, or the exception that ends the
\* pass; processed_timestamp is what datetime.utcnow() returns at line 346.
BuildRows(message_data, processed_timestamp) ==
    Assemble(message_data, processed_timestamp,
             calculate_total_product_cost(message_data.produto_data,
                                          message_data.pdv_pedido_data),
             calculate_total_product_value_without_discount(
                 message_data.pdv_pedido_data),
             calculate_pedido_discount(message_data.pdv_pedido_data.desconto,
                                       message_data.pdv_pedido_data.totalProdutos),
             ItemLoop(message_data, processed_timestamp,
                      message_data.pdv_pedido_data.itens,
                      calculate_total_pre_discount_value(message_data.pdv_pedido_data),
                      extract_total_discount(message_data.pdv_pedido_data),
                      [total_desconto_produtos |-> RZero, itens_pedido_rows |-> <<>>]))

(***************************************************************************)
(* State.  One pass of process_pubsub_message per element of DOMAIN pc;    *)
(* the warehouse sink (the two fact tables) is shared by the passes.       *)
(***************************************************************************)
VARIABLES
    msg,          \* pass -> the decoded message_data of the pass
    pc,           \* pass -> where the pass is in process_pubsub_message
    err,          \* pass -> the exception that ended the pass ("" for none)
    loc,          \* pass -> [pedidos_rows, itens_pedido_rows] once built
    tableExists,  \* table -> whether the sink has the table
    tables,       \* table -> the rows handed to the sink, in order
    clock,        \* what datetime.utcnow() returns now
    extractedAt,  \* pass -> the clock when it had extracted the payload fields
    dfield,       \* discount model alone: the discount field
    dtotal,       \* discount model alone: the totalProdutos field
    dcalc,        \* <<result>> of calculate_pedido_discount once called
    dextr,        \* <<result>> of extract_total_discount once called
    fn,           \* a function called alone: which one ("" for none)
    arg,          \* a function called alone: its argument
    ret,          \* <<result>> of the function called alone, once called
    checker,      \* the state of a run of api_to_gcs-checker.py (<<>> for none)
    backfill,     \* the state of a sweep of api_to_gcs-backfill.py (<<>> for none)
    webhook,      \* the state of a run of api_to_gcs process_webhook_payload
    api,          \* the state of an invocation of api_to_gcs make_api_call
    handler       \* the state of a request to erp_webhook_handler

vars == <<msg, pc, err, loc, tableExists, tables, clock, extractedAt, dfield, dtotal, dcalc, dextr, fn, arg, ret, checker, backfill, webhook, api, handler>>
passVars == <<msg, pc, err, loc, tableExists, tables, clock, extractedAt>>
discountVars == <<dfield, dtotal, dcalc, dextr>>
callVars == <<fn, arg, ret>>
scriptVars == <<checker, backfill, webhook, api, handler>>

TableIds == {"pedidos", "itens"}

(***************************************************************************)
(* Inputs.                                                                 *)
(***************************************************************************)
ProdutoIds == {1, 2}
\* valor, quantidade and desconto of an item: plain units, a unit of no
\* value, two discounted units, a unit discounted by 100%, no unit.
ItemShapes == {[valor |-> 100, quantidade |-> 1, desconto |-> 0],
               [valor |-> 200, quantidade |-> 1, desconto |-> 0],
               [valor |-> 0, quantidade |-> 1, desconto |-> 0],
               [valor |-> 100, quantidade |-> 2, desconto |-> 10],
               [valor |-> 100, quantidade |-> 1, desconto |-> 100],
               [valor |-> 100, quantidade |-> 0, desconto |-> 0]}
Items == {[idProduto |-> id, valor |-> sh.valor, quantidade |-> sh.quantidade,
           desconto |-> sh.desconto] : id \in ProdutoIds, sh \in ItemShapes}
ItemLists == UNION {[1..n -> Items] : n \in 0..MaxItems}

Produto1 == [id |-> 1, preco_custo |-> 40]
Produto1b == [id |-> 1, preco_custo |-> 70]
Produto2 == [id |-> 2, preco_custo |-> 50]
\* Product 2 missing and product 1 listed twice, or both products listed.
ProdutoDatas == {<<Produto1, Produto1b>>, <<Produto1, Produto2>>}

PedidoDescontos == {<<"1", "0", "%">>, <<"1", "2", ",", "5", "0">>, <<"x">>}

\* The messages of pass p: the order of pass p has uuid p and id p.
\* The order-search record of order id: the order's id and its vendor.
PesquisaOf(id) == [id |-> id, nome_vendedor |-> <<"v", id>>, id_vendedor |-> id + 10]

\* The order search is made by order number (api_to_gcs/main.py 215-217) and
\* may return the records of other orders, before or instead of the order's.
PesquisaLists(p) == {<<PesquisaOf(p)>>, <<PesquisaOf(p), PesquisaOf(p + 1)>>,
                     <<PesquisaOf(p + 1)>>, <<PesquisaOf(p + 1), PesquisaOf(p)>>}

\* absent names the key the payload lacks ("" when it lacks none); the
\* value the record holds under that key is never read.
MessagesOf(p, itemLists, produtoDatas, descontos, absents) ==
    {[uuid |-> p,
      timestamp |-> 0,
      absent |-> a,
      pedidos_pesquisa_data |-> <<PesquisaOf(p)>>,
      pdv_pedido_data |-> [id |-> p, desconto |-> d, totalProdutos |-> <<"3", "0", "0">>,
                           totalVenda |-> 270, itens |-> il],
      produto_data |-> pd] :
        il \in itemLists, pd \in produtoDatas, d \in descontos, a \in absents}

\* Discount fields that float() refuses, with and without '%'.
UnparseableDescontos == {<<"x", "%">>, <<"%">>, <<>>, <<"1", ",", "5", "%">>,
                         <<"1", ".", "5", ".">>}
\* Orders of plain units of the two products.
PlainItems == {[idProduto |-> 1, valor |-> 100, quantidade |-> 1, desconto |-> 0],
               [idProduto |-> 2, valor |-> 200, quantidade |-> 1, desconto |-> 0]}
PlainItemLists == UNION {[1..n -> PlainItems] : n \in 0..MaxItems}

\* Well-formed payloads, and payloads of plain orders that lack one of the
\* keys process_pubsub_message reads.
Messages(p) ==
    MessagesOf(p, ItemLists, ProdutoDatas, PedidoDescontos, {""})
    \cup MessagesOf(p, PlainItemLists, {<<Produto1, Produto2>>}, UnparseableDescontos, {""})
    \cup MessagesOf(p, PlainItemLists, {<<Produto1, Produto2>>}, {<<"1", "0", "%">>},
                    KeysReadFirst \cup KeysReadLater)
    \cup {[m EXCEPT !.pedidos_pesquisa_data = pp] :
              m \in MessagesOf(p, PlainItemLists, {<<Produto1, Produto2>>},
                               {<<"1", "0", "%">>}, {""}),
              pp \in PesquisaLists(p)}

\* Two passes in parallel: orders of unit items without item discount.
ParItems == [idProduto : ProdutoIds, valor : {100}, quantidade : {1}, desconto : {0}]
ParItemLists == UNION {[1..n -> ParItems] : n \in 0..MaxItems}
ParMessages(p) == MessagesOf(p, ParItemLists, {<<Produto1>>}, {<<"1", "0", "%">>}, {""})

NoRows == [pedidos_rows |-> <<>>, itens_pedido_rows |-> <<>>]

InitPasses(m) ==
    /\ msg = m
    /\ pc = [p \in DOMAIN m |-> "transform"]
    /\ err = [p \in DOMAIN m |-> ""]
    /\ loc = [p \in DOMAIN m |-> NoRows]
    /\ tableExists \in [TableIds -> BOOLEAN]
    /\ tables = [t \in TableIds |-> <<>>]
    /\ clock = 1
    /\ extractedAt = [p \in DOMAIN m |-> 0]

NoCall ==
    /\ fn = ""
    /\ arg = <<>>
    /\ ret = <<>>

NoScripts ==
    /\ checker = <<>>
    /\ backfill = <<>>
    /\ webhook = <<>>
    /\ api = <<>>
    /\ handler = <<>>

NoDiscountCall ==
    /\ dfield = <<>>
    /\ dtotal = <<>>
    /\ dcalc = <<>>
    /\ dextr = <<>>
    /\ NoCall
    /\ NoScripts

Init ==
    /\ \E m1 \in Messages(1) : InitPasses(1 :> m1)
    /\ NoDiscountCall

InitPar ==
    /\ \E m1 \in ParMessages(1), m2 \in ParMessages(2) :
           InitPasses((1 :> m1) @@ (2 :> m2))
    /\ NoDiscountCall

(***************************************************************************)
(* process_pubsub_message, step by step.                                   *)
(***************************************************************************)
TableOf(at) == IF at \in {"get_pedidos", "create_pedidos", "insert_pedidos"}
               THEN "pedidos" ELSE "itens"

\* main.py 361-365: what follows a table's create_table_if_not_exists / insert.
AfterTable(at) == IF TableOf(at) = "pedidos" THEN "get_itens" ELSE "insert_pedidos"
AfterInsert(at) == IF at = "insert_pedidos" THEN "insert_itens" ELSE "done"

Fail(p, e) ==
    /\ pc' = [pc EXCEPT ![p] = "failed"]
    /\ err' = [err EXCEPT ![p] = e]

\* main.py 319-359 with the outcome of the calculators and the assembly.
TransformTo(p, built) ==
    /\ pc[p] = "transform"
    /\ IF built.ok
       THEN /\ loc' = [loc EXCEPT ![p] = built.val]
            /\ pc' = [pc EXCEPT ![p] = "get_pedidos"]
            /\ err' = err
       ELSE /\ Fail(p, built.err)
            /\ loc' = loc
    /\ UNCHANGED <<msg, tableExists, tables, discountVars, callVars, scriptVars, clock, extractedAt>>

\* main.py 319-359: decode the message and build the rows; an exception
\* of the calculators ends the pass before the sink is touched.
Transform(p) == TransformTo(p, BuildRows(msg[p], clock))

\* main.py 295-296: client.get_table returns the table.
GetTableFound(p) ==
    /\ pc[p] \in {"get_pedidos", "get_itens"}
    /\ tableExists[TableOf(pc[p])]
    /\ pc' = [pc EXCEPT ![p] = AfterTable(pc[p])]
    /\ UNCHANGED <<msg, err, loc, tableExists, tables, discountVars, callVars, scriptVars, clock, extractedAt>>

\* main.py 295, 297-298: client.get_table raises NotFound.
GetTableMissing(p) ==
    /\ pc[p] \in {"get_pedidos", "get_itens"}
    /\ ~tableExists[TableOf(pc[p])]
    /\ pc' = [pc EXCEPT ![p] = IF pc[p] = "get_pedidos" THEN "create_pedidos"
                                ELSE "create_itens"]
    /\ UNCHANGED <<msg, err, loc, tableExists, tables, discountVars, callVars, scriptVars, clock, extractedAt>>

\* main.py 297: "except Exception" also takes any other failure of get_table
\* (of a table that exists) for a missing table.
GetTableFault(p) ==
    /\ pc[p] \in {"get_pedidos", "get_itens"}
    /\ tableExists[TableOf(pc[p])]
    /\ pc' = [pc EXCEPT ![p] = IF pc[p] = "get_pedidos" THEN "create_pedidos"
                                ELSE "create_itens"]
    /\ UNCHANGED <<msg, err, loc, tableExists, tables, discountVars, callVars, scriptVars, clock, extractedAt>>

\* main.py 299-306: client.create_table creates the table.
CreateTableOk(p) ==
    /\ pc[p] \in {"create_pedidos", "create_itens"}
    /\ ~tableExists[TableOf(pc[p])]
    /\ tableExists' = [tableExists EXCEPT ![TableOf(pc[p])] = TRUE]
    /\ pc' = [pc EXCEPT ![p] = AfterTable(pc[p])]
    /\ UNCHANGED <<msg, err, loc, tables, discountVars, callVars, scriptVars, clock, extractedAt>>

\* main.py 305: client.create_table (exists_ok left False) raises Conflict
\* for a table that exists by now; nothing catches it.
CreateTableConflict(p) ==
    /\ pc[p] \in {"create_pedidos", "create_itens"}
    /\ tableExists[TableOf(pc[p])]
    /\ Fail(p, "Conflict")
    /\ UNCHANGED <<msg, loc, tableExists, tables, discountVars, callVars, scriptVars, clock, extractedAt>>

\* main.py 305: client.create_table fails otherwise; nothing catches it.
CreateTableFault(p) ==
    /\ pc[p] \in {"create_pedidos", "create_itens"}
    /\ ~tableExists[TableOf(pc[p])]
    /\ Fail(p, "CreateError")
    /\ UNCHANGED <<msg, loc, tableExists, tables, discountVars, callVars, scriptVars, clock, extractedAt>>

RowsToInsert(p) == IF pc[p] = "insert_pedidos" THEN loc[p].pedidos_rows
                   ELSE loc[p].itens_pedido_rows

\* main.py 309-315, 364-365: insert_rows returns no errors.
InsertOk(p) ==
    /\ pc[p] \in {"insert_pedidos", "insert_itens"}
    /\ tables' = [tables EXCEPT ![TableOf(pc[p])] = @ \o RowsToInsert(p)]
    /\ pc' = [pc EXCEPT ![p] = AfterInsert(pc[p])]
    /\ UNCHANGED <<msg, err, loc, tableExists, discountVars, callVars, scriptVars, clock, extractedAt>>

\* main.py 310-313: get_table or insert_rows raises, or insert_rows returns
\* errors; no row of the call is kept and nothing catches the exception.
InsertFault(p) ==
    /\ pc[p] \in {"insert_pedidos", "insert_itens"}
    /\ Fail(p, "InsertError")
    /\ UNCHANGED <<msg, loc, tableExists, tables, discountVars, callVars, scriptVars, clock, extractedAt>>

Next ==
    \/ \E p \in DOMAIN pc : Transform(p)
    \/ \E p \in DOMAIN pc : GetTableFound(p)
    \/ \E p \in DOMAIN pc : GetTableMissing(p)
    \/ \E p \in DOMAIN pc : GetTableFault(p)
    \/ \E p \in DOMAIN pc : CreateTableOk(p)
    \/ \E p \in DOMAIN pc : CreateTableConflict(p)
    \/ \E p \in DOMAIN pc : CreateTableFault(p)
    \/ \E p \in DOMAIN pc : InsertOk(p)
    \/ \E p \in DOMAIN pc : InsertFault(p)

Spec == Init /\ [][Next]_vars

\* Two passes against a sink whose calls fail only for what the passes
\* themselves did to it.
NextPar ==
    \/ \E p \in DOMAIN pc : Transform(p)
    \/ \E p \in DOMAIN pc : GetTableFound(p)
    \/ \E p \in DOMAIN pc : GetTableMissing(p)
    \/ \E p \in DOMAIN pc : CreateTableOk(p)
    \/ \E p \in DOMAIN pc : CreateTableConflict(p)
    \/ \E p \in DOMAIN pc : InsertOk(p)

SpecPar == InitPar /\ [][NextPar]_vars

(***************************************************************************)
(* The discount model alone: the two order-discount functions applied to   *)
(* a discount field and a totalProdutos field.                             *)
(***************************************************************************)
Alphabet == {"1", "5", ",", ".", "%", "-", "x"}
Strings(n) == UNION {[1..k -> Alphabet] : k \in 0..n}

\* The fields of the documented examples, longer than MaxLen.
ExampleFields == {<<"1", "2", ",", "5", "0">>, <<"1", "0", "%">>, <<"1", "5", "%">>}
DiscountFields == Strings(MaxLen) \cup ExampleFields
TotalFields == {<<"1", "0", "0", "0">>, <<"3", "0", "0">>, <<"-", "2", "0", "0">>,
                <<"0">>, <<"x">>}

InitDiscount ==
    /\ NoScripts
    /\ dfield \in DiscountFields
    /\ dtotal \in TotalFields
    /\ dcalc = <<>>
    /\ dextr = <<>>
    /\ NoCall
    /\ msg = <<>>
    /\ pc = <<>>
    /\ err = <<>>
    /\ loc = <<>>
    /\ tableExists \in [TableIds -> BOOLEAN]
    /\ tables = [t \in TableIds |-> <<>>]
    /\ clock = 1
    /\ extractedAt = <<>>

\* main.py 340: calculate_pedido_discount(pdv['desconto'], pdv['totalProdutos'])
CallCalculatePedidoDiscount ==
    /\ dcalc = <<>>
    /\ dcalc' = <<calculate_pedido_discount(dfield, dtotal)>>
    /\ UNCHANGED <<dfield, dtotal, dextr, passVars, callVars, scriptVars>>

\* main.py 343: extract_total_discount(pdv_pedido_data)
CallExtractTotalDiscount ==
    /\ dextr = <<>>
    /\ dextr' = <<extract_total_discount([desconto |-> dfield, totalProdutos |-> dtotal])>>
    /\ UNCHANGED <<dfield, dtotal, dcalc, passVars, callVars, scriptVars>>

NextDiscount ==
    \/ CallCalculatePedidoDiscount
    \/ CallExtractTotalDiscount

SpecDiscount == InitDiscount /\ [][NextDiscount]_vars

(***************************************************************************)
(* Functions of the transformer called alone on one argument.              *)
(***************************************************************************)
\* Unit values and item discount percentages (item['valor'], item['desconto']).
ValoresUnd == {0, 1, 3, 90, 100, 199, 1990}
DescontosUnd == {-10, 0, 1, 10, 33, 50, 99, 100, 150}
ItemArgs == [valor : ValoresUnd, desconto : DescontosUnd]

InitCall(f, args) ==
    /\ NoScripts
    /\ fn = f
    /\ arg \in args
    /\ ret = <<>>
    /\ dfield = <<>>
    /\ dtotal = <<>>
    /\ dcalc = <<>>
    /\ dextr = <<>>
    /\ msg = <<>>
    /\ pc = <<>>
    /\ err = <<>>
    /\ loc = <<>>
    /\ tableExists = [t \in TableIds |-> FALSE]
    /\ tables = [t \in TableIds |-> <<>>]
    /\ clock = 1
    /\ extractedAt = <<>>

\* Category strings (produto['retorno']['produto']['categoria']).
CategoriaAlphabet == {"a", "b", " ", ">"}
Categorias == UNION {[1..k -> CategoriaAlphabet] : k \in 0..MaxCategoria}

\* Date strings (pdv_pedido_data['data']): day, month and year fields of
\* every shape, joined by '/' or by '-', and a few others.
DayFields == {<<"0", "0">>, <<"0", "1">>, <<"1">>, <<" ", "1">>, <<"2", "8">>,
              <<"2", "9">>, <<"3", "0">>, <<"3", "1">>, <<"3", "2">>, <<"x", "1">>}
MonthFields == {<<"0", "0">>, <<"0", "1">>, <<"0", "2">>, <<"2">>, <<"0", "4">>,
                <<"1", "2">>, <<"1", "3">>}
YearFields == {<<"2", "0", "2", "4">>, <<"2", "0", "2", "3">>, <<"1", "9", "0", "0">>,
               <<"2", "0", "0", "0">>, <<"0", "9", "9", "9">>, <<"0", "0", "0", "0">>,
               <<"2", "4">>, <<"2", "0", "2", "4", "5">>}
DateStrings ==
    {d \o <<sep>> \o m \o <<sep>> \o y :
         d \in DayFields, m \in MonthFields, y \in YearFields, sep \in {"/", "-"}}
    \cup {<<>>, <<"x">>, <<"0", "1", "/", "0", "1">>,
          <<"0", "1", "/", "0", "1", "/", "2", "0", "2", "4", "/">>,
          <<"2", "0", "2", "4", "/", "0", "1", "/", "3", "1">>}

InitCalls ==
    \/ InitCall("process_item", ItemArgs)
    \/ InitCall("transform_date_format", DateStrings)
    \/ InitCall("categoria", Categorias)

\* main.py 186-187: the pre-discount unit price and the item's own discount.
CallUnitPrices ==
    /\ fn = "process_item"
    /\ ret = <<>>
    /\ ret' = <<[valor_sem_desconto_und |-> ValorSemDescontoUnd(arg),
                 desconto_produto_und |->
                     calculate_item_discount(R(arg.valor), R(arg.desconto))]>>
    /\ UNCHANGED <<fn, arg, passVars, discountVars, scriptVars>>

\* main.py 177-184: the category split of process_item.
CallProdutoCategoria ==
    /\ fn = "categoria"
    /\ ret = <<>>
    /\ ret' = <<ProdutoCategoria(arg)>>
    /\ UNCHANGED <<fn, arg, passVars, discountVars, scriptVars>>

\* main.py 327: transform_date_format(pdv_pedido_data['data'])
CallTransformDateFormat ==
    /\ fn = "transform_date_format"
    /\ ret = <<>>
    /\ \E padded \in BOOLEAN : ret' = <<transform_date_format(arg, padded)>>
    /\ UNCHANGED <<fn, arg, passVars, discountVars, scriptVars>>

NextCalls ==
    \/ CallUnitPrices
    \/ CallTransformDateFormat
    \/ CallProdutoCategoria

SpecCalls == InitCalls /\ [][NextCalls]_vars

(***************************************************************************)
(* One pass against the clock: the transformation in its two stretches,    *)
(* the reads of the payload and the totals (main.py 322-343) and, from the *)
(* clock read of line 346 on, the assembly of the rows (346-359), with     *)
(* time passing between any two steps.  Transform is the two in one step.  *)
(***************************************************************************)
MaxClock == 3

Timestamps == 0..1

ClockMessages(p) ==
    {[m EXCEPT !.timestamp = t] :
        m \in MessagesOf(p, PlainItemLists, {<<Produto1, Produto2>>},
                         {<<"1", "0", "%">>}, {"", "contato", "formaPagamento"}),
        t \in Timestamps}

InitClock ==
    /\ \E m1 \in ClockMessages(1) : InitPasses(1 :> m1)
    /\ NoDiscountCall

\* main.py 322-343: the outcome of the key reads and of the totals.
ExtractFields(message_data, sem_desconto) ==
    IF message_data.absent \in KeysReadFirst THEN Raise("KeyError")
    ELSE IF ~sem_desconto.ok THEN sem_desconto
    ELSE IF message_data.absent \in KeysReadLater THEN Raise("KeyError")
    ELSE Val(TRUE)

ExtractTo(p, extracted) ==
    /\ pc[p] = "transform"
    /\ IF extracted.ok
       THEN /\ pc' = [pc EXCEPT ![p] = "assemble"]
            /\ err' = err
       ELSE Fail(p, extracted.err)
    /\ extractedAt' = [extractedAt EXCEPT ![p] = clock]
    /\ UNCHANGED <<msg, loc, tableExists, tables, discountVars, callVars, scriptVars, clock>>

\* main.py 322-343
Extract(p) ==
    ExtractTo(p, ExtractFields(msg[p],
                               calculate_total_product_value_without_discount(
                                   msg[p].pdv_pedido_data)))

AssembleTo(p, built) ==
    /\ pc[p] = "assemble"
    /\ IF built.ok
       THEN /\ loc' = [loc EXCEPT ![p] = built.val]
            /\ pc' = [pc EXCEPT ![p] = "get_pedidos"]
            /\ err' = err
       ELSE /\ Fail(p, built.err)
            /\ loc' = loc
    /\ UNCHANGED <<msg, tableExists, tables, discountVars, callVars, scriptVars, clock, extractedAt>>

\* main.py 346-359: processed_timestamp = datetime.utcnow(), the loop and
\* the order row.
AssembleRows(p) == AssembleTo(p, BuildRows(msg[p], clock))

\* Time passes.
Tick ==
    /\ clock < MaxClock
    /\ clock' = clock + 1
    /\ UNCHANGED <<msg, pc, err, loc, tableExists, tables, extractedAt, discountVars, callVars, scriptVars>>

NextClock ==
    \/ \E p \in DOMAIN pc : Extract(p)
    \/ \E p \in DOMAIN pc : AssembleRows(p)
    \/ \E p \in DOMAIN pc : GetTableFound(p)
    \/ \E p \in DOMAIN pc : GetTableMissing(p)
    \/ \E p \in DOMAIN pc : GetTableFault(p)
    \/ \E p \in DOMAIN pc : CreateTableOk(p)
    \/ \E p \in DOMAIN pc : CreateTableConflict(p)
    \/ \E p \in DOMAIN pc : CreateTableFault(p)
    \/ \E p \in DOMAIN pc : InsertOk(p)
    \/ \E p \in DOMAIN pc : InsertFault(p)
    \/ Tick

SpecClock == InitClock /\ [][NextClock]_vars

(***************************************************************************)
(* The other programs start from a state without passes and calls.         *)
(***************************************************************************)
NoPass ==
    /\ msg = <<>>
    /\ pc = <<>>
    /\ err = <<>>
    /\ loc = <<>>
    /\ tableExists = [t \in TableIds |-> FALSE]
    /\ tables = [t \in TableIds |-> <<>>]
    /\ clock = 1
    /\ extractedAt = <<>>

Idle ==
    /\ NoPass
    /\ dfield = <<>>
    /\ dtotal = <<>>
    /\ dcalc = <<>>
    /\ dextr = <<>>
    /\ NoCall

(***************************************************************************)
(* data_validation/api_to_gcs-checker.py.  A folder of the bucket is       *)
(* [dados_id, ts, valid]: the order id in its name, the timestamp its name *)
(* starts with (0 for a name with T000000) and whether check_files passes  *)
(* on its blobs.  Folders are named 1..n; Python iterates the set of       *)
(* folder names in any order.                                              *)
(***************************************************************************)
MaxFolders == 3
MaxDadosId == 2
MaxTimestamp == 2

FolderAttributes == [dados_id : 1..MaxDadosId, ts : 0..MaxTimestamp, valid : BOOLEAN]
Listings == UNION {[1..n -> FolderAttributes] : n \in 1..MaxFolders}

\* api_to_gcs-checker.py 130-135: the folders of one dados_id.
group_folders_by_dados_id(folders, dados_id) ==
    {f \in DOMAIN folders : folders[f].dados_id = dados_id}

\* api_to_gcs-checker.py 171-172: the order ids with more than one folder.
DuplicatedIds(folders) ==
    {d \in 1..MaxDadosId : Cardinality(group_folders_by_dados_id(folders, d)) > 1}

\* api_to_gcs-checker.py 142-150: the folders handle_duplicate_folders may
\* keep: any one when all have T000000 (the first of the list, whose order is
\* the set's), else one of the timestamped folders of least timestamp.
FoldersToKeep(folders, group) ==
    LET folders_with_zero_time == {f \in group : folders[f].ts = 0}
        folders_with_timestamps == group \ folders_with_zero_time
    IN  IF folders_with_zero_time = group THEN group
        ELSE {f \in folders_with_timestamps :
                 \A g \in folders_with_timestamps : folders[f].ts <= folders[g].ts}

InitChecker ==
    /\ Idle
    /\ backfill = <<>>
    /\ webhook = <<>>
    /\ api = <<>>
    /\ handler = <<>>
    /\ \E folders \in Listings :
           checker = [folders |-> folders,
                      phase |-> "check",
                      todo |-> DOMAIN folders,
                      processed_folders |-> {},
                      deleted |-> {},
                      groups |-> {}]

\* api_to_gcs-checker.py 198-205: after the last folder of the loop the
\* run goes on to find_and_handle_duplicates, and ends when no order id has
\* more than one folder.
AfterCheck(todo, folders) ==
    IF todo # {} THEN "check"
    ELSE IF DuplicatedIds(folders) = {} THEN "done" ELSE "duplicates"

\* api_to_gcs-checker.py 198-200, 59-89, 175-182: one turn of main's loop;
\* a folder that fails check_files is deleted.
CheckFolder(f) ==
    /\ checker # <<>>
    /\ checker.phase = "check"
    /\ f \in checker.todo
    /\ checker' = [checker EXCEPT
                      !.todo = @ \ {f},
                      !.processed_folders = @ \cup {f},
                      !.deleted = IF checker.folders[f].valid THEN @ ELSE @ \cup {f},
                      !.phase = AfterCheck(checker.todo \ {f}, checker.folders),
                      !.groups = IF checker.todo = {f}
                                 THEN DuplicatedIds(checker.folders) ELSE @]
    /\ UNCHANGED <<passVars, discountVars, callVars, backfill, webhook, api, handler>>

\* api_to_gcs-checker.py 100-104, 95-98: blob.delete() fails three times
\* and the RetryError ends the run.
DeleteFault ==
    /\ checker # <<>>
    /\ \/ /\ checker.phase = "check"
          /\ \E f \in checker.todo : ~checker.folders[f].valid
       \/ checker.phase = "duplicates"
    /\ checker' = [checker EXCEPT !.phase = "crashed"]
    /\ UNCHANGED <<passVars, discountVars, callVars, backfill, webhook, api, handler>>

\* api_to_gcs-checker.py 171-173, 141-167: one group of
\* find_and_handle_duplicates; every folder of the group but folder_to_keep
\* is deleted, whether it still exists or not.
HandleDuplicateFolders(dados_id, folder_to_keep) ==
    /\ checker # <<>>
    /\ checker.phase = "duplicates"
    /\ dados_id \in checker.groups
    /\ folder_to_keep \in FoldersToKeep(checker.folders,
                                         group_folders_by_dados_id(checker.folders, dados_id))
    /\ checker' = [checker EXCEPT
                      !.groups = @ \ {dados_id},
                      !.deleted = @ \cup (group_folders_by_dados_id(checker.folders, dados_id)
                                            \ {folder_to_keep}),
                      !.processed_folders =
                          @ \cup (group_folders_by_dados_id(checker.folders, dados_id)
                                    \ {folder_to_keep}),
                      !.phase = IF checker.groups = {dados_id} THEN "done" ELSE @]
    /\ UNCHANGED <<passVars, discountVars, callVars, backfill, webhook, api, handler>>

NextChecker ==
    \/ \E f \in 1..MaxFolders : CheckFolder(f)
    \/ \E d \in 1..MaxDadosId, f \in 1..MaxFolders : HandleDuplicateFolders(d, f)
    \/ DeleteFault

SpecChecker == InitChecker /\ [][NextChecker]_vars

(***************************************************************************)
(* backfill/api_to_gcs-backfill.py: one sweep of process_pedidos over the  *)
(* pages of the order search.  The bucket is the set of the order ids      *)
(* whose "-<id>-" some blob name contains; other writers add and delete    *)
(* blobs while the sweep runs.                                             *)
(***************************************************************************)
MaxPages == 2
MaxPerPage == 2

\* The order ids the search returns.
PedidoIds == {1, 2}
Pages == UNION {[1..n -> PedidoIds] : n \in 0..MaxPerPage}
PageListings == UNION {[1..n -> Pages] : n \in 1..MaxPages}

\* api_to_gcs-backfill.py 120-126
is_pedido_processed_just_in_time(bucket, dados_id) == dados_id \in bucket

\* Mutant of MarkProcessed: the order id is not remembered.
MarkProcessed_forgetful(all_processed_dados_ids, dados_id) == all_processed_dados_ids

\* api_to_gcs-backfill.py 225: all_processed_dados_ids.add(dados_id)
MarkProcessed(all_processed_dados_ids, dados_id) == all_processed_dados_ids \cup {dados_id}

InitBackfill ==
    /\ Idle
    /\ checker = <<>>
    /\ webhook = <<>>
    /\ api = <<>>
    /\ handler = <<>>
    /\ \E pages \in PageListings, blobs \in SUBSET PedidoIds :
           backfill = [pages |-> pages,
                       phase |-> "page",
                       pagina |-> 1,
                       index |-> 0,
                       bucket |-> blobs,
                       \* 236: fetch_and_extract_dados_ids()
                       listed |-> blobs,
                       all_processed_dados_ids |-> blobs,
                       fetches |-> [d \in PedidoIds |-> 0],
                       publishes |-> [d \in PedidoIds |-> 0]]

Sweeping == backfill # <<>> /\ backfill.phase \in {"page", "pedidos"}

\* api_to_gcs-backfill.py 238, 246: the page after page pagina, if any.
NextPage(b) ==
    [b EXCEPT !.pagina = @ + 1,
              !.index = 0,
              !.phase = IF b.pagina + 1 <= Len(b.pages) THEN "page" ELSE "done"]

\* api_to_gcs-backfill.py 243-246: the order after the one just visited.
NextPedido(b) ==
    IF b.index < Len(b.pages[b.pagina]) THEN [b EXCEPT !.index = @ + 1]
    ELSE NextPage(b)

\* api_to_gcs-backfill.py 239-243: the page is fetched.
FetchPage ==
    /\ Sweeping
    /\ backfill.phase = "page"
    /\ backfill' = IF backfill.pages[backfill.pagina] = <<>> THEN NextPage(backfill)
                   ELSE [backfill EXCEPT !.phase = "pedidos", !.index = 1]
    /\ UNCHANGED <<passVars, discountVars, callVars, checker, webhook, api, handler>>

\* api_to_gcs-backfill.py 240: make_api_call raises and ends the sweep.
FetchPageFault ==
    /\ Sweeping
    /\ backfill.phase = "page"
    /\ backfill' = [backfill EXCEPT !.phase = "crashed"]
    /\ UNCHANGED <<passVars, discountVars, callVars, checker, webhook, api, handler>>

CurrentPedido == backfill.pages[backfill.pagina][backfill.index]

\* api_to_gcs-backfill.py 213, 228-229: already in the set.
SkipProcessed ==
    /\ Sweeping
    /\ backfill.phase = "pedidos"
    /\ CurrentPedido \in backfill.all_processed_dados_ids
    /\ backfill' = NextPedido(backfill)
    /\ UNCHANGED <<passVars, discountVars, callVars, checker, webhook, api, handler>>

\* api_to_gcs-backfill.py 214, 226-227: found in the bucket just in time.
SkipJustInTime ==
    /\ Sweeping
    /\ backfill.phase = "pedidos"
    /\ CurrentPedido \notin backfill.all_processed_dados_ids
    /\ is_pedido_processed_just_in_time(backfill.bucket, CurrentPedido)
    /\ backfill' = NextPedido(backfill)
    /\ UNCHANGED <<passVars, discountVars, callVars, checker, webhook, api, handler>>

\* api_to_gcs-backfill.py 215-225: the payloads are fetched, stored unless
\* the upload fails (the failure is swallowed, 117-118) and published as
\* one notification (a failure is swallowed too, 171-172).
ProcessPedido(stored) ==
    /\ Sweeping
    /\ backfill.phase = "pedidos"
    /\ CurrentPedido \notin backfill.all_processed_dados_ids
    /\ ~is_pedido_processed_just_in_time(backfill.bucket, CurrentPedido)
    /\ backfill' = NextPedido(
           [backfill EXCEPT
               !.fetches[CurrentPedido] = @ + 1,
               !.publishes[CurrentPedido] = @ + 1,
               !.bucket = IF stored THEN @ \cup {CurrentPedido} ELSE @,
               !.all_processed_dados_ids = MarkProcessed(@, CurrentPedido)])
    /\ UNCHANGED <<passVars, discountVars, callVars, checker, webhook, api, handler>>

\* api_to_gcs-backfill.py 219-220: one of the fetches raises, before or
\* after the order detail was fetched and stored; the sweep ends.
ProcessPedidoFault(fetched, stored) ==
    /\ Sweeping
    /\ backfill.phase = "pedidos"
    /\ CurrentPedido \notin backfill.all_processed_dados_ids
    /\ ~is_pedido_processed_just_in_time(backfill.bucket, CurrentPedido)
    /\ stored => fetched
    /\ backfill' = [backfill EXCEPT
                       !.fetches[CurrentPedido] = IF fetched THEN @ + 1 ELSE @,
                       !.bucket = IF stored THEN @ \cup {CurrentPedido} ELSE @,
                       !.phase = "crashed"]
    /\ UNCHANGED <<passVars, discountVars, callVars, checker, webhook, api, handler>>

\* Another writer stores blobs of an order while the sweep runs.
BlobsStored(dados_id) ==
    /\ Sweeping
    /\ dados_id \notin backfill.bucket
    /\ backfill' = [backfill EXCEPT !.bucket = @ \cup {dados_id}]
    /\ UNCHANGED <<passVars, discountVars, callVars, checker, webhook, api, handler>>

\* The blobs of an order are deleted while the sweep runs.
BlobsDeleted(dados_id) ==
    /\ Sweeping
    /\ dados_id \in backfill.bucket
    /\ backfill' = [backfill EXCEPT !.bucket = @ \ {dados_id}]
    /\ UNCHANGED <<passVars, discountVars, callVars, checker, webhook, api, handler>>

NextBackfill ==
    \/ FetchPage
    \/ FetchPageFault
    \/ SkipProcessed
    \/ SkipJustInTime
    \/ \E stored \in BOOLEAN : ProcessPedido(stored)
    \/ \E fetched, stored \in BOOLEAN : ProcessPedidoFault(fetched, stored)
    \/ \E d \in PedidoIds : BlobsStored(d)
    \/ \E d \in PedidoIds : BlobsDeleted(d)

SpecBackfill == InitBackfill /\ [][NextBackfill]_vars

(***************************************************************************)
(* api_to_gcs/main.py: process_webhook_payload on one storage event.  The  *)
(* order's items are given by their idProduto, 0 for an item without one.  *)
(* store_payload swallows a failed upload (main.py 272-273), so a payload  *)
(* is stored or not, whatever else happens.                                *)
(***************************************************************************)
ItemIds == {0, 1, 2}
ItemIdLists == UNION {[1..n -> ItemIds] : n \in 0..MaxItems}

InitWebhook ==
    /\ Idle
    /\ checker = <<>>
    /\ backfill = <<>>
    /\ api = <<>>
    /\ handler = <<>>
    /\ \E itens \in ItemIdLists :
           webhook = [pc |-> "extract",
                      itens |-> itens,
                      item |-> 1,
                      fetched_pdv |-> FALSE,
                      produto_payloads |-> <<>>,
                      fetched_pesquisa |-> FALSE,
                      nota_fiscal_link_data |-> "None",
                      nfce_failed |-> FALSE,
                      failed |-> "",
                      stored |-> {},
                      publishes |-> 0]

At(at) == webhook # <<>> /\ webhook.pc = at

\* api_to_gcs/main.py 126-129: an exception of a step outside the inner
\* try is logged and the function returns.
FunctionFailed(w, step) == [w EXCEPT !.pc = "done", !.failed = step]

\* Mutant of NfceFailed: the exception is not caught by the inner try.
NfceFailed_propagating(w) == FunctionFailed(w, "nfce")

\* api_to_gcs/main.py 121-122: an exception of NFC-e generation or of
\* the link retrieval is logged and the function goes on to publish.
NfceFailed(w) == [w EXCEPT !.pc = "publish", !.nfce_failed = TRUE]

\* api_to_gcs/main.py 156-160: the items from the next on that have an
\* idProduto; the others are passed over.
RECURSIVE NextItemWithId(_, _)
NextItemWithId(itens, i) ==
    IF i > Len(itens) \/ itens[i] # 0 THEN i ELSE NextItemWithId(itens, i + 1)

\* api_to_gcs/main.py 155-167, 115: after the item before i, the next
\* product to fetch, or the order search when no item is left.
ToNextItem(w, i) ==
    [w EXCEPT !.item = NextItemWithId(w.itens, i),
              !.pc = IF NextItemWithId(w.itens, i) > Len(w.itens)
                     THEN "pesquisa" ELSE "produto"]

\* api_to_gcs/main.py 107-111, 132-142: the payload is read; without
\* dados.id the function returns, and a failed read raises.
ExtractPayloadDetails(outcome) ==
    /\ At("extract")
    /\ webhook' = CASE outcome = "details" -> [webhook EXCEPT !.pc = "token"]
                    [] outcome = "none" -> [webhook EXCEPT !.pc = "done"]
                    [] OTHER -> FunctionFailed(webhook, "extract")
    /\ UNCHANGED <<passVars, discountVars, callVars, checker, backfill, api, handler>>

\* api_to_gcs/main.py 112, 46-53
GetApiToken(ok) ==
    /\ At("token")
    /\ webhook' = IF ok THEN [webhook EXCEPT !.pc = "pdv"]
                  ELSE FunctionFailed(webhook, "token")
    /\ UNCHANGED <<passVars, discountVars, callVars, checker, backfill, api, handler>>

\* api_to_gcs/main.py 148-154: the order detail is fetched and stored.
FetchPdvPedidoData(ok, uploaded) ==
    /\ At("pdv")
    /\ webhook' = IF ok
                  THEN ToNextItem([webhook EXCEPT
                                      !.fetched_pdv = TRUE,
                                      !.stored = IF uploaded THEN @ \cup {<<"pdv", 0>>} ELSE @],
                                  1)
                  ELSE FunctionFailed(webhook, "pdv")
    /\ UNCHANGED <<passVars, discountVars, callVars, checker, backfill, api, handler>>

\* api_to_gcs/main.py 157-166: the product of the item is fetched and
\* stored.
FetchProdutoData(ok, uploaded) ==
    /\ At("produto")
    /\ webhook' = IF ok
                  THEN ToNextItem([webhook EXCEPT
                                      !.produto_payloads =
                                          Append(@, webhook.itens[webhook.item]),
                                      !.stored = IF uploaded
                                                 THEN @ \cup {<<"produto", webhook.itens[webhook.item]>>}
                                                 ELSE @],
                                  webhook.item + 1)
                  ELSE FunctionFailed(webhook, "produto")
    /\ UNCHANGED <<passVars, discountVars, callVars, checker, backfill, api, handler>>

\* api_to_gcs/main.py 115, 170-179: the order search is fetched and stored.
FetchPedidosPesquisaData(ok, uploaded) ==
    /\ At("pesquisa")
    /\ webhook' = IF ok
                  THEN [webhook EXCEPT
                           !.fetched_pesquisa = TRUE,
                           !.stored = IF uploaded THEN @ \cup {<<"pesquisa", 0>>} ELSE @,
                           !.pc = "nfce"]
                  ELSE FunctionFailed(webhook, "pesquisa")
    /\ UNCHANGED <<passVars, discountVars, callVars, checker, backfill, api, handler>>

\* api_to_gcs/main.py 119, 182-189
ProcessNfceGeneration(ok) ==
    /\ At("nfce")
    /\ webhook' = IF ok THEN [webhook EXCEPT !.pc = "link"] ELSE NfceFailed(webhook)
    /\ UNCHANGED <<passVars, discountVars, callVars, checker, backfill, api, handler>>

\* api_to_gcs/main.py 120, 192-202
ProcessNotaFiscalLinkRetrieval(ok, uploaded) ==
    /\ At("link")
    /\ webhook' = IF ok
                  THEN [webhook EXCEPT
                           !.nota_fiscal_link_data = "link",
                           !.stored = IF uploaded THEN @ \cup {<<"nfce", 0>>} ELSE @,
                           !.pc = "publish"]
                  ELSE NfceFailed(webhook)
    /\ UNCHANGED <<passVars, discountVars, callVars, checker, backfill, api, handler>>

\* api_to_gcs/main.py 124, 276-292: one call of publisher.publish, whose
\* failure is logged and swallowed.
PublishNotification ==
    /\ At("publish")
    /\ webhook' = [webhook EXCEPT !.publishes = @ + 1, !.pc = "done"]
    /\ UNCHANGED <<passVars, discountVars, callVars, checker, backfill, api, handler>>

NextWebhook ==
    \/ \E outcome \in {"details", "none", "raise"} : ExtractPayloadDetails(outcome)
    \/ \E ok \in BOOLEAN : GetApiToken(ok)
    \/ \E ok, uploaded \in BOOLEAN : FetchPdvPedidoData(ok, uploaded)
    \/ \E ok, uploaded \in BOOLEAN : FetchProdutoData(ok, uploaded)
    \/ \E ok, uploaded \in BOOLEAN : FetchPedidosPesquisaData(ok, uploaded)
    \/ \E ok \in BOOLEAN : ProcessNfceGeneration(ok)
    \/ \E ok, uploaded \in BOOLEAN : ProcessNotaFiscalLinkRetrieval(ok, uploaded)
    \/ PublishNotification

SpecWebhook == InitWebhook /\ [][NextWebhook]_vars

(***************************************************************************)
(* api_to_gcs/main.py: one invocation of make_api_call under its @retry.   *)
(* What an attempt meets is the answer of the ERP: no answer or an HTTP    *)
(* error, a body that is not JSON, or a JSON payload with its              *)
(* status_processamento and codigo_erro ("" when the key is absent, "4"    *)
(* and "2" for any other value).                                           *)
(***************************************************************************)
StopAfterAttempt == 4

ApiResponses ==
    {[kind |-> "error", status_processamento |-> "", codigo_erro |-> ""],
     [kind |-> "not_json", status_processamento |-> "", codigo_erro |-> ""]}
    \cup [kind : {"json"},
          status_processamento : {"", "1", "2", "3", "4"},
          codigo_erro : {"", "1", "2"}]

\* api_to_gcs/main.py 76-90: the exception raised, "" when it returns.
validate_json_payload(json_data) ==
    IF json_data.status_processamento = "3" THEN ""
    ELSE IF json_data.status_processamento = "2" THEN "ValidationError"
    ELSE IF json_data.status_processamento = "1"
         THEN IF json_data.codigo_erro = "1" THEN "InvalidTokenError"
              ELSE "RetryableError"
    ELSE ""

\* api_to_gcs/main.py 58-73: the exceptions one attempt can end with, ""
\* for a return.  response.json() raises a RequestException or a plain
\* ValueError on a body that is not JSON, by the version of requests.
make_api_call(response) ==
    CASE response.kind = "error" -> {"RequestException"}
      [] response.kind = "not_json" -> {"RequestException", "ValueError"}
      [] OTHER -> {validate_json_payload(response)}

\* Mutant of ShouldRetry: every exception is retried.
ShouldRetry_any(outcome) == outcome # ""

\* api_to_gcs/main.py 56: retry_if_exception_type((RequestException,
\* RetryableError))
ShouldRetry(outcome) == outcome \in {"RequestException", "RetryableError"}

InitApi ==
    /\ Idle
    /\ checker = <<>>
    /\ backfill = <<>>
    /\ webhook = <<>>
    /\ handler = <<>>
    /\ api = [state |-> "calling", attempts |-> <<>>, responses |-> <<>>, raised |-> ""]

\* api_to_gcs/main.py 56-73: one attempt and what tenacity does with its
\* outcome: the result is returned, an exception that is not retried is
\* raised, and one that is retried leads to the next attempt or, after
\* the last, to RetryError.
Attempt(response, outcome) ==
    /\ api # <<>>
    /\ api.state = "calling"
    /\ outcome \in make_api_call(response)
    /\ api' = [api EXCEPT
                  !.attempts = Append(@, outcome),
                  !.responses = Append(@, response),
                  !.state = IF outcome = "" THEN "returned"
                            ELSE IF ~ShouldRetry(outcome) THEN "raised"
                            ELSE IF Len(api.attempts) + 1 >= StopAfterAttempt
                                 THEN "raised"
                            ELSE "calling",
                  !.raised = IF outcome = "" THEN ""
                             ELSE IF ~ShouldRetry(outcome) THEN outcome
                             ELSE IF Len(api.attempts) + 1 >= StopAfterAttempt
                                  THEN "RetryError"
                             ELSE ""]
    /\ UNCHANGED <<passVars, discountVars, callVars, checker, backfill, webhook, handler>>

NextApi ==
    \E response \in ApiResponses :
        \E outcome \in {"", "RequestException", "ValueError", "ValidationError",
                         "InvalidTokenError", "RetryableError"} :
            Attempt(response, outcome)

\* The retry loop of tenacity goes on: its waits are finite (at most
\* 187.5 s, main.py 56), and an attempt is taken to end, the request being
\* answered or failing.
SpecApi == InitApi /\ [][NextApi]_vars /\ WF_vars(NextApi)

(***************************************************************************)
(* webhook_handler/vendas_webhook_handler_gcf.py: erp_webhook_handler on   *)
(* one request.  The body is empty, not JSON, or a JSON value: an object   *)
(* with some of the fields, a sequence (an array or a string, for which    *)
(* `in` is membership) or a scalar (a number, a boolean or null).  An      *)
(* exception the handler does not catch is answered 500 by the framework,  *)
(* as is abort(500); a body get_json cannot parse is answered 400.         *)
(***************************************************************************)
UploadStopAfterAttempt == 3

required_fields == {"versao", "cnpj", "tipo", "dados"}

Payloads ==
    [kind : {"object"}, fields : SUBSET required_fields,
     tipo : {"inclusao_pedido", "alteracao_pedido"}, dados : {"object", "string"}]
    \cup [kind : {"sequence"}, fields : SUBSET required_fields,
          tipo : {""}, dados : {""}]
    \cup [kind : {"scalar"}, fields : {{}}, tipo : {""}, dados : {""}]

Requests ==
    [method : {"POST", "GET"}, data : {"empty", "not_json"}, payload : {<<>>}]
    \cup [method : {"POST", "GET"}, data : {"json"}, payload : Payloads]

\* vendas_webhook_handler_gcf.py 23-28: the exception raised, "" when it
\* returns.
validate_payload(request_data) ==
    IF request_data.kind = "scalar" THEN "TypeError"
    ELSE IF ~(required_fields \subseteq request_data.fields)
         THEN "Payload missing required fields"
    ELSE IF request_data.kind = "sequence" THEN "TypeError"
    ELSE IF request_data.tipo # "inclusao_pedido"
         THEN "Payload 'tipo' is not 'inclusao_pedido'"
    ELSE ""

\* vendas_webhook_handler_gcf.py 34-51: the status the handler answers
\* before any upload, 0 when it goes on to upload.
AnswerBeforeUpload(request) ==
    IF request.method # "POST" THEN 405
    ELSE IF request.data = "empty" THEN 400
    ELSE IF request.data = "not_json" THEN 400
    ELSE IF validate_payload(request.payload) = "Payload 'tipo' is not 'inclusao_pedido'"
         THEN 200
    ELSE IF validate_payload(request.payload) = "Payload missing required fields"
         THEN 400
    ELSE IF validate_payload(request.payload) = "TypeError" THEN 500
    ELSE IF request.payload.dados # "object" THEN 500
    ELSE 0

InitHandler ==
    /\ Idle
    /\ checker = <<>>
    /\ backfill = <<>>
    /\ webhook = <<>>
    /\ api = <<>>
    /\ \E request \in Requests :
           handler = [request |-> request, phase |-> "received", attempts |-> 0,
                      uploaded |-> FALSE, status |-> 0]

\* vendas_webhook_handler_gcf.py 34-58: up to the call of upload_to_gcs.
HandleRequest ==
    /\ handler # <<>>
    /\ handler.phase = "received"
    /\ handler' = IF AnswerBeforeUpload(handler.request) = 0
                  THEN [handler EXCEPT !.phase = "uploading"]
                  ELSE [handler EXCEPT !.phase = "answered",
                                       !.status = AnswerBeforeUpload(handler.request)]
    /\ UNCHANGED <<passVars, discountVars, callVars, checker, backfill, webhook, api>>

\* vendas_webhook_handler_gcf.py 18-21, 59-65: one attempt of the upload:
\* done it is answered 200, failed it is repeated, and failed for the last
\* time it is answered 500.
UploadAttempt(ok) ==
    /\ handler # <<>>
    /\ handler.phase = "uploading"
    /\ handler' = IF ok
                  THEN [handler EXCEPT !.attempts = @ + 1, !.uploaded = TRUE,
                                       !.phase = "answered", !.status = 200]
                  ELSE IF handler.attempts + 1 >= UploadStopAfterAttempt
                       THEN [handler EXCEPT !.attempts = @ + 1,
                                            !.phase = "answered", !.status = 500]
                  ELSE [handler EXCEPT !.attempts = @ + 1]
    /\ UNCHANGED <<passVars, discountVars, callVars, checker, backfill, webhook, api>>

NextHandler ==
    \/ HandleRequest
    \/ \E ok \in BOOLEAN : UploadAttempt(ok)

SpecHandler == InitHandler /\ [][NextHandler]_vars

(***************************************************************************)
(* Properties.                                                             *)
(***************************************************************************)
Ended(p) == pc[p] \in {"done", "failed"}

\* The rows of a table that carry the trace id of pass p.
RowsOf(t, p) == LET Mine(row) == row.uuid = msg[p].uuid IN SelectSeq(tables[t], Mine)

ItensOf(p) == msg[p].pdv_pedido_data.itens
HasMatch(p, item) ==
    \E i \in 1..Len(msg[p].produto_data) : msg[p].produto_data[i].id = item.idProduto
\* The line items of pass p that have a product record, in order.
MatchedItems(p) == LET Matched(item) == HasMatch(p, item) IN SelectSeq(ItensOf(p), Matched)

RECURSIVE RSum(_)
RSum(seq) == IF seq = <<>> THEN RZero ELSE RAdd(Head(seq), RSum(Tail(seq)))

\* |a - b| <= 1e-6 * |b|
WithinTolerance(a, b) == RLe(RMul(RAbs(RSub(a, b)), R(1000000)), RAbs(b))

\* C1: when a pass has ended (completed or failed), the pedidos table holds
\* the order's row exactly if the itens_pedido table holds all of the
\* order's item rows: the two hand-offs are one atomic hand-off.
C1_AtomicHandOff ==
    \A p \in DOMAIN pc :
        Ended(p) =>
            \/ /\ RowsOf("pedidos", p) = <<>>
               /\ RowsOf("itens", p) = <<>>
            \/ /\ RowsOf("pedidos", p) = loc[p].pedidos_rows
               /\ RowsOf("itens", p) = loc[p].itens_pedido_rows

AllocationOf(p, i) ==
    calculate_proportional_discount(
        RMul(R(ItensOf(p)[i].valor), R(ItensOf(p)[i].quantidade)),
        calculate_total_pre_discount_value(msg[p].pdv_pedido_data),
        extract_total_discount(msg[p].pdv_pedido_data))

\* C2: for an order with at least one item and a total pre-discount value
\* > 0, the allocations calculate_proportional_discount gives to the items
\* sum to the total order discount within a relative tolerance of 1e-6.
C2_AllocationSumsToTotal ==
    \A p \in DOMAIN pc :
        (/\ pc[p] # "transform"
         /\ Len(ItensOf(p)) >= 1
         /\ RLt(RZero, calculate_total_pre_discount_value(msg[p].pdv_pedido_data)))
        => LET allocations == [i \in 1..Len(ItensOf(p)) |-> AllocationOf(p, i)]
           IN  /\ \A i \in 1..Len(ItensOf(p)) : allocations[i].ok
               /\ WithinTolerance(
                      RSum([i \in 1..Len(ItensOf(p)) |-> allocations[i].val]),
                      extract_total_discount(msg[p].pdv_pedido_data))

C2_Witness ==
    \E p \in DOMAIN pc :
        /\ pc[p] = "done"
        /\ Len(ItensOf(p)) = 2
        /\ ItensOf(p)[1].valor # ItensOf(p)[2].valor
        /\ ItensOf(p)[1].quantidade = 2
        /\ RLt(RZero, extract_total_discount(msg[p].pdv_pedido_data))
        /\ Len(RowsOf("itens", p)) = 2

\* C3: when the total pre-discount value of an order is 0 (its items have
\* valor 0; no item has a 100% discount or a zero quantity), the pass is not
\* ended by an exception of the allocation: every item is allocated 0.
C3_ZeroTotalSafe ==
    \A p \in DOMAIN pc :
        (/\ pc[p] # "transform"
         /\ calculate_total_pre_discount_value(msg[p].pdv_pedido_data) = RZero
         /\ \A i \in 1..Len(ItensOf(p)) :
                ItensOf(p)[i].desconto # 100 /\ ItensOf(p)[i].quantidade > 0)
        => /\ err[p] # "ZeroDivisionError"
           /\ \A i \in 1..Len(ItensOf(p)) :
                  AllocationOf(p, i).ok /\ AllocationOf(p, i).val = RZero

\* C4: the intrinsic-discount computation with a discount of exactly 100
\* raises, and a pass whose order has such an item ends with that error and
\* with no row of the order in either table.
C4_FatalDivisionGuard ==
    /\ \A sh \in ItemShapes : ~calculate_item_discount(R(sh.valor), R(100)).ok
    /\ \A p \in DOMAIN pc :
           (/\ pc[p] # "transform"
            /\ \E i \in 1..Len(ItensOf(p)) : ItensOf(p)[i].desconto = 100)
           => /\ pc[p] = "failed"
              /\ err[p] = "ZeroDivisionError"
              /\ RowsOf("pedidos", p) = <<>>
              /\ RowsOf("itens", p) = <<>>

C4_Witness ==
    \E p \in DOMAIN pc :
        /\ pc[p] = "failed"
        /\ err[p] = "ZeroDivisionError"
        /\ Len(ItensOf(p)) = 2
        /\ ItensOf(p)[1].desconto = 0 /\ ItensOf(p)[1].valor = 100
        /\ ItensOf(p)[1].quantidade = 1
        /\ ItensOf(p)[2].desconto = 100 /\ ItensOf(p)[2].quantidade = 1
        /\ ~HasMatch(p, ItensOf(p)[2])

CostOfItem(p, item) ==
    RMul(R(FindProduto(msg[p].produto_data, item.idProduto).produto.preco_custo),
         R(item.quantidade))

\* C5: a pass hands over the order row although items lack a product
\* record; its valor_produtos_custo is the sum of cost price x quantity over
\* the items that have one (the sum of total_produto_valor_custo over the
\* item rows), and a completed pass has handed over exactly one item row per
\* item with a product record, in order, and none for the others.
C5_MissingProductExclusion ==
    \A p \in DOMAIN pc :
        /\ pc[p] \in {"insert_itens", "done"} =>
               /\ Len(RowsOf("pedidos", p)) = 1
               /\ RowsOf("pedidos", p)[1].valor_produtos_custo =
                      RSum([i \in 1..Len(MatchedItems(p)) |->
                                CostOfItem(p, MatchedItems(p)[i])])
               /\ RowsOf("pedidos", p)[1].valor_produtos_custo =
                      RSum([i \in 1..Len(loc[p].itens_pedido_rows) |->
                                loc[p].itens_pedido_rows[i].total_produto_valor_custo])
        /\ pc[p] = "done" =>
               /\ Len(RowsOf("itens", p)) = Len(MatchedItems(p))
               /\ \A i \in 1..Len(MatchedItems(p)) :
                      RowsOf("itens", p)[i].produto_id = MatchedItems(p)[i].idProduto

C5_Witness ==
    \E p \in DOMAIN pc :
        /\ pc[p] = "done"
        /\ Len(ItensOf(p)) = 2
        /\ Len(MatchedItems(p)) = 1
        /\ HasMatch(p, ItensOf(p)[2])
        /\ ItensOf(p)[2].quantidade = 2
        /\ Len(RowsOf("itens", p)) = 1
        /\ Len(RowsOf("pedidos", p)) = 1

\* C6: two passes for different orders do not disturb each other: a pass
\* that has ended has ended as it ends alone, with the rows (or the
\* exception) that its own message gives.
C6_PassesIndependent ==
    \A p \in DOMAIN pc :
        Ended(p) =>
            IF BuildRows(msg[p], clock).ok
            THEN /\ pc[p] = "done"
                 /\ RowsOf("pedidos", p) = BuildRows(msg[p], clock).val.pedidos_rows
                 /\ RowsOf("itens", p) = BuildRows(msg[p], clock).val.itens_pedido_rows
            ELSE /\ pc[p] = "failed"
                 /\ err[p] = BuildRows(msg[p], clock).err

RowsBuilt(p) == loc[p].pedidos_rows # <<>>
PreDiscount(item) == RMul(R(item.valor), R(item.quantidade))
SumPreDiscount(p) == RSum([i \in 1..Len(ItensOf(p)) |-> PreDiscount(ItensOf(p)[i])])

IsExampleOrder(p) ==
    /\ Len(ItensOf(p)) = 2
    /\ ItensOf(p)[1].valor = 100 /\ ItensOf(p)[2].valor = 200
    /\ \A i \in 1..2 : /\ ItensOf(p)[i].quantidade = 1
                       /\ ItensOf(p)[i].desconto = 0
                       /\ HasMatch(p, ItensOf(p)[i])
    /\ msg[p].pdv_pedido_data.desconto = <<"1", "0", "%">>
    /\ msg[p].pdv_pedido_data.totalProdutos = <<"3", "0", "0">>

\* C7: the desconto_pedido of every item row is the total order discount
\* times the item's valor x quantidade over the sum of valor x quantidade of
\* all items of the order; for items of 100 and 200 (quantity 1, no item
\* discount) and the order discount "10%" on totalProdutos 300, the order
\* discount is 30 and the allocations are 10 and 20.
C7_ProportionalAllocation ==
    \A p \in DOMAIN pc :
        RowsBuilt(p) =>
            /\ Len(loc[p].itens_pedido_rows) = Len(MatchedItems(p))
            /\ \A k \in 1..Len(MatchedItems(p)) :
                   loc[p].itens_pedido_rows[k].desconto_pedido =
                       RDiv(RMul(loc[p].pedidos_rows[1].desconto_pedido,
                                 PreDiscount(MatchedItems(p)[k])),
                            SumPreDiscount(p))
            /\ IsExampleOrder(p) =>
                   /\ loc[p].pedidos_rows[1].desconto_pedido = R(30)
                   /\ loc[p].itens_pedido_rows[1].desconto_pedido = R(10)
                   /\ loc[p].itens_pedido_rows[2].desconto_pedido = R(20)

C7_Witness ==
    \E p \in DOMAIN pc :
        /\ pc[p] = "done"
        /\ IsExampleOrder(p)
        /\ Len(RowsOf("itens", p)) = 2
        /\ RowsOf("itens", p)[2].desconto_pedido = R(20)

DescontoOf(p) == msg[p].pdv_pedido_data.desconto
\* float() refuses the field, with its '%' removed or its ',' made '.'.
CannotParse(f) == IF Contains(f, "%") THEN ~PyFloat(Remove(f, "%")).ok
                  ELSE ~PyFloat(Replace(f, ",", ".")).ok
\* The message of pass p with the discount field "0".
WithoutDesconto(p) ==
    [msg[p] EXCEPT !.pdv_pedido_data = [@ EXCEPT !.desconto = <<"0">>]]
AllZeroDescontoPedido(rows) ==
    \A k \in 1..Len(rows) : rows[k].desconto_pedido = RZero

\* C11: for a discount field that float() refuses, both order-discount
\* functions return 0, the pass is not ended by ValueError, it builds the
\* rows (or fails) exactly as for the discount "0", and the order row and
\* the item rows it hands over have desconto_pedido = 0.
C11_UnparseableDiscountNonFatal ==
    \A p \in DOMAIN pc :
        (pc[p] # "transform" /\ CannotParse(DescontoOf(p))) =>
            /\ calculate_pedido_discount(DescontoOf(p),
                                         msg[p].pdv_pedido_data.totalProdutos) = RZero
            /\ extract_total_discount(msg[p].pdv_pedido_data) = RZero
            /\ err[p] # "ValueError"
            /\ IF BuildRows(WithoutDesconto(p), clock).ok
               THEN /\ loc[p] = BuildRows(WithoutDesconto(p), clock).val
                    /\ err[p] \in {"", "Conflict", "CreateError", "InsertError"}
               ELSE err[p] = BuildRows(WithoutDesconto(p), clock).err
            /\ AllZeroDescontoPedido(loc[p].pedidos_rows)
            /\ AllZeroDescontoPedido(loc[p].itens_pedido_rows)
            /\ AllZeroDescontoPedido(RowsOf("pedidos", p))
            /\ AllZeroDescontoPedido(RowsOf("itens", p))
            /\ pc[p] = "done" => /\ Len(RowsOf("pedidos", p)) = 1
                                 /\ Len(RowsOf("itens", p)) = Len(MatchedItems(p))

C11_Witness ==
    \E p \in DOMAIN pc :
        /\ pc[p] = "done"
        /\ DescontoOf(p) = <<"x", "%">>
        /\ Len(RowsOf("pedidos", p)) = 1
        /\ RowsOf("pedidos", p)[1].desconto_pedido = RZero
        /\ Len(RowsOf("itens", p)) = 2
        /\ RowsOf("itens", p)[2].desconto_pedido = RZero

\* C13: in the order row a pass builds and in the one it hands over,
\* valor_faturado is the payload's totalVenda, whatever the items and the
\* discounts are, and valor_lucro = valor_faturado - valor_produtos_custo.
C13_OrderProfit ==
    \A p \in DOMAIN pc :
        \A row \in {loc[p].pedidos_rows[k] : k \in 1..Len(loc[p].pedidos_rows)}
                 \cup {RowsOf("pedidos", p)[k] : k \in 1..Len(RowsOf("pedidos", p))} :
            /\ row.valor_faturado = R(msg[p].pdv_pedido_data.totalVenda)
            /\ row.valor_lucro = RSub(row.valor_faturado, row.valor_produtos_custo)

\* An order whose items and discount do not add up to its totalVenda.
C13_Witness ==
    \E p \in DOMAIN pc :
        /\ pc[p] = "done"
        /\ Len(RowsOf("pedidos", p)) = 1
        /\ SumPreDiscount(p) = R(100)
        /\ RowsOf("pedidos", p)[1].valor_faturado = R(270)
        /\ RowsOf("pedidos", p)[1].valor_produtos_custo = R(40)
        /\ RowsOf("pedidos", p)[1].valor_lucro = R(230)

\* The item rows a pass has built and the ones it has handed over, each
\* with the line item it was built from (the k-th row is of the k-th item
\* that has a product record).
ItemRowsOf(p) ==
    {[row |-> loc[p].itens_pedido_rows[k], item |-> MatchedItems(p)[k]] :
         k \in 1..Len(loc[p].itens_pedido_rows)}
    \cup {[row |-> RowsOf("itens", p)[k], item |-> MatchedItems(p)[k]] :
              k \in 1..Len(RowsOf("itens", p))}

\* The first product record of the message with the item's idProduto.
FirstProduto(p, item) ==
    LET pd == msg[p].produto_data
        i == CHOOSE i \in 1..Len(pd) :
                 /\ pd[i].id = item.idProduto
                 /\ \A j \in 1..(i - 1) : pd[j].id # item.idProduto
    IN  pd[i]

\* C14: in every item row, desconto_total_und = desconto_produto_und +
\* desconto_pedido_und, produto_valor_com_desconto_und =
\* produto_valor_sem_desconto_und - desconto_total_und, produto_valor_lucro_und
\* = produto_valor_com_desconto_und - produto_valor_custo_und, and
\* produto_valor_custo_und is the cost price of the item's product record.
C14_UnitPriceChain ==
    \A p \in DOMAIN pc :
        \A ri \in ItemRowsOf(p) :
            /\ ri.row.desconto_total_und =
                   RAdd(ri.row.desconto_produto_und, ri.row.desconto_pedido_und)
            /\ ri.row.produto_valor_com_desconto_und =
                   RSub(ri.row.produto_valor_sem_desconto_und, ri.row.desconto_total_und)
            /\ ri.row.produto_valor_lucro_und =
                   RSub(ri.row.produto_valor_com_desconto_und,
                        ri.row.produto_valor_custo_und)
            /\ ri.row.produto_id = ri.item.idProduto
            /\ ri.row.produto_valor_custo_und = R(FirstProduto(p, ri.item).preco_custo)

\* Two units of 100 with an item discount of 10% and the order discount
\* "10%" of 300: per unit 100/9 of item discount and 15 of order discount.
C14_Witness ==
    \E p \in DOMAIN pc :
        /\ pc[p] = "done"
        /\ Len(RowsOf("itens", p)) = 1
        /\ RowsOf("itens", p)[1].desconto_produto_und = <<100, 9>>
        /\ RowsOf("itens", p)[1].desconto_pedido_und = R(15)
        /\ RowsOf("itens", p)[1].desconto_total_und = <<235, 9>>
        /\ RowsOf("itens", p)[1].produto_valor_com_desconto_und = R(85)
        /\ RowsOf("itens", p)[1].produto_valor_lucro_und = R(45)

\* C15: in every item row, desconto_produto, desconto_pedido,
\* desconto_total, total_produto_valor_sem_desconto,
\* total_produto_valor_faturado, total_produto_valor_custo and
\* total_produto_valor_lucro are the per-unit fields times
\* produto_quantidade, the item's quantity.
C15_ItemTotals ==
    \A p \in DOMAIN pc :
        \A ri \in ItemRowsOf(p) :
            LET row == ri.row
                q == row.produto_quantidade
            IN  /\ q = R(ri.item.quantidade)
                /\ row.desconto_produto = RMul(row.desconto_produto_und, q)
                /\ row.desconto_pedido = RMul(row.desconto_pedido_und, q)
                /\ row.desconto_total = RMul(row.desconto_total_und, q)
                /\ row.total_produto_valor_sem_desconto =
                       RMul(row.produto_valor_sem_desconto_und, q)
                /\ row.total_produto_valor_faturado =
                       RMul(row.produto_valor_com_desconto_und, q)
                /\ row.total_produto_valor_custo = RMul(row.produto_valor_custo_und, q)
                /\ row.total_produto_valor_lucro = RMul(row.produto_valor_lucro_und, q)

C15_Witness ==
    \E p \in DOMAIN pc :
        /\ pc[p] = "done"
        /\ Len(RowsOf("itens", p)) = 1
        /\ RowsOf("itens", p)[1].produto_quantidade = R(2)
        /\ RowsOf("itens", p)[1].desconto_produto = <<200, 9>>
        /\ RowsOf("itens", p)[1].desconto_pedido = R(30)
        /\ RowsOf("itens", p)[1].total_produto_valor_faturado = R(170)
        /\ RowsOf("itens", p)[1].total_produto_valor_lucro = R(90)

Returned(f) == fn = f /\ ret # <<>>

\* C12: for a unit value and an item discount percentage below 100, the
\* pre-discount unit price minus the item's own discount is the unit value,
\* and that discount is the stated percentage of the pre-discount unit
\* price; unit value 90 with 10% gives the discount 10.
C12_DiscountRoundTrip ==
    (Returned("process_item") /\ arg.desconto < 100) =>
        /\ ret[1].valor_sem_desconto_und.ok
        /\ ret[1].desconto_produto_und.ok
        /\ RSub(ret[1].valor_sem_desconto_und.val, ret[1].desconto_produto_und.val)
               = R(arg.valor)
        /\ ret[1].desconto_produto_und.val
               = RMul(RDiv(R(arg.desconto), R(100)), ret[1].valor_sem_desconto_und.val)
        /\ (arg.valor = 90 /\ arg.desconto = 10) =>
               ret[1].desconto_produto_und.val = R(10)

C12_Witness ==
    /\ Returned("process_item")
    /\ arg = [valor |-> 90, desconto |-> 10]
    /\ ret[1].valor_sem_desconto_und = Val(R(100))
    /\ ret[1].desconto_produto_und = Val(R(10))

\* Where the separator " >> " occurs in a string (1-based).
SeparatorAt(s) == {i \in 1..Len(s) : i + 3 <= Len(s) /\ s[i] = " " /\ s[i + 1] = ">"
                                      /\ s[i + 2] = ">" /\ s[i + 3] = " "}
Before(s, i) == [k \in 1..(i - 1) |-> s[k]]
After(s, i) == [k \in 1..(Len(s) - i - 3) |-> s[k + i + 3]]
\* t is s without its leading and trailing blanks.
IsTrimOf(t, s) ==
    \/ t = <<>> /\ \A k \in 1..Len(s) : s[k] = " "
    \/ \E i, j \in 1..Len(s) :
           /\ i <= j /\ s[i] # " " /\ s[j] # " "
           /\ \A k \in 1..Len(s) : (k < i \/ k > j) => s[k] = " "
           /\ t = [k \in 1..(j - i + 1) |-> s[k + i - 1]]

\* C16 as stated: with a separator the principal category is the text
\* before it and the secondary category the trimmed text after it; without
\* one the principal category is the string and the secondary is empty.
C16_CategorySplitAsStated ==
    Returned("categoria") =>
        IF SeparatorAt(arg) # {}
        THEN \E i \in SeparatorAt(arg) :
                 /\ ret[1].produto_categoria_principal = Before(arg, i)
                 /\ IsTrimOf(ret[1].produto_categoria_secundaria, After(arg, i))
        ELSE /\ ret[1].produto_categoria_principal = arg
             /\ ret[1].produto_categoria_secundaria = <<>>

\* C16 amended: with a separator the principal category is the trimmed
\* text before its first occurrence and the secondary category the trimmed
\* text after it; without one the principal category is the string
\* (untrimmed) and the secondary is empty.
C16_CategorySplitTrimmed ==
    Returned("categoria") =>
        IF SeparatorAt(arg) # {}
        THEN \E i \in SeparatorAt(arg) :
                 /\ \A j \in SeparatorAt(arg) : i <= j
                 /\ IsTrimOf(ret[1].produto_categoria_principal, Before(arg, i))
                 /\ IsTrimOf(ret[1].produto_categoria_secundaria, After(arg, i))
        ELSE /\ ret[1].produto_categoria_principal = arg
             /\ ret[1].produto_categoria_secundaria = <<>>

C16_Witness ==
    /\ Returned("categoria")
    /\ arg = <<"a", " ", " ", ">", ">", " ", "b">>
    /\ ret[1].produto_categoria_principal = <<"a">>
    /\ ret[1].produto_categoria_secundaria = <<"b">>

\* A calendar date written DD/MM/YYYY.
IsDDMMYYYY(s) ==
    /\ Len(s) = 10
    /\ s[3] = "/" /\ s[6] = "/"
    /\ \A i \in {1, 2, 4, 5, 7, 8, 9, 10} : IsDigit(s[i])
    /\ LET d == 10 * DigitVal[s[1]] + DigitVal[s[2]]
           m == 10 * DigitVal[s[4]] + DigitVal[s[5]]
           y == 1000 * DigitVal[s[7]] + 100 * DigitVal[s[8]]
                    + 10 * DigitVal[s[9]] + DigitVal[s[10]]
       IN  y >= 1 /\ m \in 1..12 /\ d >= 1 /\ d <= DaysInMonth(m, y)
\* The same date written YYYY-MM-DD.
ISODate(s) == <<s[7], s[8], s[9], s[10], "-", s[4], s[5], "-", s[1], s[2]>>

\* The ways strptime reads a day or a month number: as it is, padded with
\* a zero, and (a day) padded with a blank.
Spellings(n, blank) ==
    {Decimal(n), ZeroPad(Decimal(n), 2)}
    \cup (IF blank /\ n < 10 THEN {<<" ">> \o Decimal(n)} ELSE {})
\* The string spells a calendar date as day/month/four-digit year.
ParsesAsDate(s) ==
    /\ Len(s) >= 4
    /\ AllDigits(SubSeq(s, Len(s) - 3, Len(s)))
    /\ LET yyyy == SubSeq(s, Len(s) - 3, Len(s))
           y == DigitsValue(yyyy)
       IN  /\ y >= 1
           /\ \E d \in 1..31, m \in 1..12 :
                  /\ d <= DaysInMonth(m, y)
                  /\ \E ds \in Spellings(d, TRUE), ms \in Spellings(m, FALSE) :
                         s = ds \o <<"/">> \o ms \o <<"/">> \o yyyy

\* C17: transform_date_format returns the date as YYYY-MM-DD for every
\* calendar date written DD/MM/YYYY, and returns the string as it came for
\* every string that does not parse as a date.
C17_DateNormalisation ==
    Returned("transform_date_format") =>
        /\ IsDDMMYYYY(arg) => ret[1] = ISODate(arg)
        /\ ~ParsesAsDate(arg) => ret[1] = arg

\* What the two order-discount functions have returned so far.
Results == dcalc \o dextr

Floor0(x) == IF RLt(x, RZero) THEN RZero ELSE x
NumberPart(f) == SubSeq(f, 1, Len(f) - 1)
\* A number (as float() reads it) followed by '%'.
IsPercentage(f) == Len(f) >= 2 /\ f[Len(f)] = "%" /\ PyFloat(NumberPart(f)).ok
PercentOf(f, t) == RMul(RDiv(PyFloat(NumberPart(f)).val, R(100)), PyFloat(t).val)
\* A number with ',' (or '.') as decimal separator and no '%'.
IsAbsolute(f) == ~Contains(f, "%") /\ PyFloat(Replace(f, ",", ".")).ok
AbsoluteOf(f) == PyFloat(Replace(f, ",", ".")).val

\* C8 as stated: for a percentage string the order discount is
\* (pct / 100) x totalProdutos.
C8_PercentageAsStated ==
    \A i \in 1..Len(Results) :
        (IsPercentage(dfield) /\ PyFloat(dtotal).ok)
        => Results[i] = PercentOf(dfield, dtotal)

\* C8 amended: for a percentage string the order discount is
\* (pct / 100) x totalProdutos, floored at zero.
C8_PercentageFloored ==
    \A i \in 1..Len(Results) :
        (IsPercentage(dfield) /\ PyFloat(dtotal).ok)
        => Results[i] = Floor0(PercentOf(dfield, dtotal))

C8_Witness ==
    /\ dfield = <<"1", "5", "%">>
    /\ dtotal = <<"1", "0", "0", "0">>
    /\ dcalc = <<R(150)>>
    /\ dextr = <<R(150)>>

\* C9 as stated: for an absolute string the order discount is its value
\* with ',' read as '.', whatever totalProdutos is.
C9_AbsoluteAsStated ==
    \A i \in 1..Len(Results) :
        IsAbsolute(dfield) => Results[i] = AbsoluteOf(dfield)

\* C9 amended: for an absolute string the order discount is its value with
\* ',' read as '.', floored at zero, whatever totalProdutos is (an
\* unparseable one included).
C9_AbsoluteFloored ==
    \A i \in 1..Len(Results) :
        IsAbsolute(dfield) => Results[i] = Floor0(AbsoluteOf(dfield))

C9_Witness ==
    /\ dfield = <<"1", "2", ",", "5", "0">>
    /\ dtotal = <<"x">>
    /\ dcalc = <<<<25, 2>>>>
    /\ dextr = <<<<25, 2>>>>

ComputedNegative ==
    IF Contains(dfield, "%")
    THEN /\ PyFloat(Remove(dfield, "%")).ok
         /\ PyFloat(dtotal).ok
         /\ RLt(RMul(RDiv(PyFloat(Remove(dfield, "%")).val, R(100)), PyFloat(dtotal).val),
                RZero)
    ELSE IsAbsolute(dfield) /\ RLt(AbsoluteOf(dfield), RZero)

\* C10: the result of calculate_pedido_discount and of
\* extract_total_discount is never negative, and it is 0 whenever the
\* computed discount (the percentage of the total, or the absolute value)
\* is negative.
C10_FlooredAtZero ==
    \A i \in 1..Len(Results) :
        /\ RLe(RZero, Results[i])
        /\ ComputedNegative => Results[i] = RZero

C10_Witness ==
    /\ dfield = <<"5", "%">>
    /\ dtotal = <<"-", "2", "0", "0">>
    /\ ComputedNegative
    /\ dcalc = <<RZero>>
    /\ dextr = <<RZero>>

\* The fields process_pubsub_message reads from the order detail
\* (message_data['pdv_pedido_data']['retorno']['pedido']), main.py 327-341.
OrderDetailKeys == {"data", "numero", "id", "contato", "itens", "totalVenda",
                    "desconto", "totalProdutos", "formaPagamento"}

LacksOrderDetailField(p) == msg[p].absent \in OrderDetailKeys

\* C18: a pass whose order detail lacks a field the code reads never gets
\* past the transformation: once it has run it has ended with the KeyError,
\* it has built no row, and no row of it is in either fact table.
C18_MalformedOrderAborts ==
    \A p \in DOMAIN pc :
        LacksOrderDetailField(p) =>
            /\ pc[p] \in {"transform", "failed"}
            /\ pc[p] = "failed" => err[p] = "KeyError"
            /\ loc[p] = NoRows
            /\ RowsOf("pedidos", p) = <<>>
            /\ RowsOf("itens", p) = <<>>

\* A pass of an order without the itens array has ended with the KeyError
\* and both tables are empty.
C18_Witness ==
    \E p \in DOMAIN pc :
        /\ msg[p].absent = "itens"
        /\ pc[p] = "failed"
        /\ err[p] = "KeyError"
        /\ tables["pedidos"] = <<>>
        /\ tables["itens"] = <<>>

AllRowsOf(p) == RowsOf("pedidos", p) \o RowsOf("itens", p)
BuiltRowsOf(p) == loc[p].pedidos_rows \o loc[p].itens_pedido_rows

StampedBy(rows, p, stamp) ==
    \A i \in 1..Len(rows) :
        /\ rows[i].uuid = msg[p].uuid
        /\ rows[i].timestamp = msg[p].timestamp
        /\ rows[i].source_id = SOURCE_ID
        /\ rows[i].processed_timestamp = stamp

\* The rows a pass has built and the rows of it in the tables carry the
\* message's uuid and timestamp, the source tag and one stamp, which is no
\* earlier than the end of the extraction and no later than now.
ProvenanceStamped ==
    \A p \in DOMAIN pc :
        \E stamp \in extractedAt[p]..clock :
            /\ StampedBy(BuiltRowsOf(p), p, stamp)
            /\ StampedBy(AllRowsOf(p), p, stamp)

\* The step that assembles the rows stamps them with the clock of that step.
StampedAtAssembly ==
    \A p \in DOMAIN pc :
        (pc[p] = "assemble" /\ pc'[p] = "get_pedidos") =>
            /\ Len(loc'[p].pedidos_rows) = 1
            /\ StampedBy(loc'[p].pedidos_rows \o loc'[p].itens_pedido_rows, p, clock)

\* C19: the order row and every item row of one pass carry the message's
\* uuid and ingestion timestamp, the static source tag and one and the same
\* processed_timestamp, which is the clock's value when the rows are
\* assembled, after the payload fields were extracted.
C19_ProvenanceStamping == []ProvenanceStamped /\ [][StampedAtAssembly]_vars

\* A finished pass of a two-item order whose three rows are stamped 2 when
\* its fields were extracted at 1, the message having been ingested at 1.
C19_Witness ==
    \E p \in DOMAIN pc :
        /\ pc[p] = "done"
        /\ msg[p].timestamp = 1
        /\ extractedAt[p] = 1
        /\ Len(AllRowsOf(p)) = 3
        /\ StampedBy(AllRowsOf(p), p, 2)

KeyOf(row) == <<row.uuid, row.produto_id>>

UniqueKeys(rows) ==
    \A i, j \in 1..Len(rows) : KeyOf(rows[i]) = KeyOf(rows[j]) => i = j

\* C20: among the item rows of one pass, those it has built and those of it
\* in the item table, no two have the same (uuid, produto_id).
C20_LineItemKeyUnique ==
    \A p \in DOMAIN pc :
        /\ UniqueKeys(loc[p].itens_pedido_rows)
        /\ UniqueKeys(RowsOf("itens", p))

Range(f) == {f[i] : i \in DOMAIN f}

\* C21: for every pass that has built or inserted an order row, the
\* order-search record the vendor columns are taken from is of the order
\* whose id is the row's pedido_id.
C21_SearchRecordMatchesOrder ==
    \A p \in DOMAIN pc :
        \A row \in Range(loc[p].pedidos_rows) \cup Range(RowsOf("pedidos", p)) :
            /\ row.vendedor_id = PedidosPesquisa(msg[p]).id_vendedor
            /\ PedidosPesquisa(msg[p]).id = row.pedido_id

\* C22: on one payload calculate_pedido_discount (the OrderFact's
\* desconto_pedido) and extract_total_discount (the discount apportioned
\* across the items) return the same value, whatever the discount field and
\* the totalProdutos field are.
C22_DiscountsAgree ==
    (dcalc # <<>> /\ dextr # <<>>) => dcalc = dextr

\* Both functions have returned 150 for 15% of 1000.
C22_Witness ==
    /\ dfield = <<"1", "5", "%">>
    /\ dtotal = <<"1", "0", "0", "0">>
    /\ dcalc = <<R(150)>>
    /\ dextr = <<R(150)>>

AllResolve(p) == \A i \in 1..Len(ItensOf(p)) : HasMatch(p, ItensOf(p)[i])

ColumnSum(rows, Column(_)) == RSum([i \in 1..Len(rows) |-> Column(rows[i])])

TotalSemDescontoOf(row) == row.total_produto_valor_sem_desconto

\* C23: when every line item of the order resolves to a product, the order
\* row's valor_produtos_sem_desconto is the sum of the item rows'
\* total_produto_valor_sem_desconto, whatever the quantities.
C23_PreDiscountTotalsConsistent ==
    \A p \in DOMAIN pc :
        (RowsBuilt(p) /\ AllResolve(p)) =>
            loc[p].pedidos_rows[1].valor_produtos_sem_desconto
                = ColumnSum(loc[p].itens_pedido_rows, TotalSemDescontoOf)

DescontoTotalOf(row) == row.desconto_total
DescontoPedidoOf(row) == row.desconto_pedido

\* C24: when every line item of the order resolves to a product and the
\* total pre-discount value is positive, the order row's desconto_total is
\* the sum of the item rows' desconto_total and its desconto_pedido is the
\* sum of their desconto_pedido.
C24_DiscountTotalsConsistent ==
    \A p \in DOMAIN pc :
        (/\ RowsBuilt(p)
         /\ AllResolve(p)
         /\ RLt(RZero, calculate_total_pre_discount_value(msg[p].pdv_pedido_data)))
        => /\ loc[p].pedidos_rows[1].desconto_total
                  = ColumnSum(loc[p].itens_pedido_rows, DescontoTotalOf)
           /\ loc[p].pedidos_rows[1].desconto_pedido
                  = ColumnSum(loc[p].itens_pedido_rows, DescontoPedidoOf)

\* A finished pass of an order of two resolving items, one of them of
\* quantity 2 with an item discount, and a positive order discount.
C24_Witness ==
    \E p \in DOMAIN pc :
        /\ pc[p] = "done"
        /\ AllResolve(p)
        /\ Len(RowsOf("itens", p)) = 2
        /\ RowsOf("itens", p)[1].produto_quantidade = R(2)
        /\ RLt(RZero, RowsOf("itens", p)[1].desconto_produto)
        /\ RLt(RZero, RowsOf("pedidos", p)[1].desconto_pedido)
        /\ RowsOf("pedidos", p)[1].desconto_total
               = ColumnSum(RowsOf("itens", p), DescontoTotalOf)

HasZeroQuantityItem(p) ==
    \E i \in 1..Len(ItensOf(p)) :
        HasMatch(p, ItensOf(p)[i]) /\ ItensOf(p)[i].quantidade = 0

\* C29: a pass whose order has a resolvable line item of quantity 0 never
\* gets past the transformation, builds no row and has no row in either
\* table, and no item row of quantity 0 is ever in the item table.
C29_NoZeroQuantityRow ==
    /\ \A p \in DOMAIN pc :
           HasZeroQuantityItem(p) =>
               /\ pc[p] \in {"transform", "failed"}
               /\ pc[p] = "failed" => err[p] \in {"ZeroDivisionError", "KeyError"}
               /\ loc[p] = NoRows
               /\ RowsOf("pedidos", p) = <<>>
               /\ RowsOf("itens", p) = <<>>
    /\ \A row \in Range(tables["itens"]) : row.produto_quantidade # RZero

\* A pass of an order with one unit item and one resolvable item of
\* quantity 0 (the total pre-discount value is positive) has ended with
\* the division by the quantity, and both tables are empty.
C29_Witness ==
    \E p \in DOMAIN pc :
        /\ pc[p] = "failed"
        /\ err[p] = "ZeroDivisionError"
        /\ Len(ItensOf(p)) = 2
        /\ AllResolve(p)
        /\ ItensOf(p)[1].quantidade = 1
        /\ ItensOf(p)[1].desconto = 0
        /\ ItensOf(p)[2].quantidade = 0
        /\ tables["pedidos"] = <<>>
        /\ tables["itens"] = <<>>

ValidFoldersOf(dados_id) ==
    {f \in DOMAIN checker.folders :
        checker.folders[f].dados_id = dados_id /\ checker.folders[f].valid}

\* C25: at no point of a run of the checker, and so not after it, has every
\* folder that passes check_files been deleted for an order id that had one.
C25_LastGoodCopyKept ==
    checker # <<>> =>
        \A d \in 1..MaxDadosId :
            ValidFoldersOf(d) # {} => ValidFoldersOf(d) \ checker.deleted # {}

\* At most one fetch and one notification per order id, none for a listed id.
FetchedAndPublishedOnce ==
    backfill # <<>> =>
        \A d \in PedidoIds :
            /\ backfill.fetches[d] <= 1
            /\ backfill.publishes[d] <= 1
            /\ d \in backfill.listed =>
                   backfill.fetches[d] = 0 /\ backfill.publishes[d] = 0

\* A step that fetches or publishes an order does so for the order being
\* visited, which is not in the set and has no blob in the bucket then.
FetchedOnlyWhenAbsent ==
    backfill # <<>> =>
        \A d \in PedidoIds :
            (\/ backfill'.fetches[d] # backfill.fetches[d]
             \/ backfill'.publishes[d] # backfill.publishes[d])
            => /\ backfill.phase = "pedidos"
               /\ d = CurrentPedido
               /\ d \notin backfill.all_processed_dados_ids
               /\ d \notin backfill.bucket

\* C26: within one sweep every order id is fetched at most once and
\* published at most once, also when it is on several pages; an id of the
\* initially listed set, or one with a blob "-<id>-" in the bucket when it
\* is visited, is not fetched and not published.
C26_BackfillDeduplication == []FetchedAndPublishedOnce /\ [][FetchedOnlyWhenAbsent]_vars

\* A finished sweep in which order 1 was on both pages and its upload left
\* no blob: fetched and published once; order 2, listed at the start and
\* on the second page, was not fetched.
C26_Witness ==
    /\ backfill # <<>>
    /\ backfill.phase = "done"
    /\ backfill.pages = <<<<1>>, <<1, 2>>>>
    /\ backfill.listed = {2}
    /\ backfill.bucket = {2}
    /\ backfill.fetches = [d \in PedidoIds |-> IF d = 1 THEN 1 ELSE 0]
    /\ backfill.publishes = [d \in PedidoIds |-> IF d = 1 THEN 1 ELSE 0]

HasIdProduto(id) == id # 0

\* What holds of the publication whichever products count as fetched.
PublishedAfter(produtosFetched) ==
    webhook # <<>> =>
        /\ webhook.publishes <= 1
        /\ webhook.publishes = 1 =>
               /\ webhook.fetched_pdv
               /\ produtosFetched
               /\ webhook.fetched_pesquisa
               /\ webhook.failed = ""
        /\ webhook.failed # "" => webhook.publishes = 0
        /\ (webhook.pc = "done" /\ webhook.fetched_pesquisa) => webhook.publishes = 1

\* C27 as stated: at most one notification per event, published only after
\* the order detail, the product of every line item and the order search
\* were fetched; a failure of NFC-e generation or link retrieval does not
\* prevent it, a failure of one of the fetches does.
C27_PublishedAfterAllFetches ==
    PublishedAfter(Len(webhook.produto_payloads) = Len(webhook.itens))

\* C27 amended: the products fetched before the publication are those of
\* the line items that have an idProduto, in order.
C27_PublishedAfterFetchesOfItemsWithId ==
    PublishedAfter(webhook.produto_payloads = SelectSeq(webhook.itens, HasIdProduto))

\* The notification of an order of two items, the second without idProduto,
\* was published after the fetches although NFC-e generation failed.
C27_Witness ==
    /\ webhook # <<>>
    /\ webhook.pc = "done"
    /\ webhook.itens = <<1, 0>>
    /\ webhook.produto_payloads = <<1>>
    /\ webhook.nfce_failed
    /\ webhook.publishes = 1

\* The attempts made so far are at most 4, and each attempt but the last
\* failed with a request error or a RetryableError.
AttemptsBoundedAndSelective ==
    api # <<>> =>
        /\ Len(api.attempts) <= 4
        /\ \A i \in 1..Len(api.attempts) - 1 :
               api.attempts[i] \in {"RequestException", "RetryableError"}
        /\ \A i \in 1..Len(api.attempts) :
               /\ api.responses[i].kind = "error"
                     => api.attempts[i] = "RequestException"
               /\ (api.responses[i].status_processamento = "1"
                      /\ api.responses[i].codigo_erro # "1")
                     => api.attempts[i] = "RetryableError"
               /\ (api.responses[i].status_processamento = "1"
                      /\ api.responses[i].codigo_erro = "1")
                     => api.attempts[i] = "InvalidTokenError"
               /\ api.responses[i].status_processamento = "2"
                     => api.attempts[i] = "ValidationError"

\* An attempt before the 4th that failed with a request error or a
\* RetryableError leaves the invocation calling; any other outcome, and the
\* 4th attempt, ends it.
RetriedUntilFourth ==
    (api # <<>> /\ api.attempts # <<>>) =>
        (api.state = "calling"
            <=> /\ Len(api.attempts) < 4
                /\ api.attempts[Len(api.attempts)]
                       \in {"RequestException", "RetryableError"})

ApiCallEnded == api # <<>> /\ api.state \in {"returned", "raised"}

HasAllFields(request) ==
    /\ request.data = "json"
    /\ request.payload.kind = "object"
    /\ request.payload.fields = {"versao", "cnpj", "tipo", "dados"}

\* C30: a blob is uploaded only for a POST with a non-empty body whose
\* payload has versao, cnpj, tipo and dados and tipo "inclusao_pedido"; all
\* fields with another tipo is answered 200 and a payload missing a field
\* 400, both with nothing uploaded; a request that is not a POST is answered
\* 405, and an upload failing on all of its at most 3 attempts 500.
C30_WebhookOutcomes ==
    handler # <<>> =>
        /\ handler.attempts <= 3
        /\ handler.uploaded =>
               /\ handler.request.method = "POST"
               /\ HasAllFields(handler.request)
               /\ handler.request.payload.tipo = "inclusao_pedido"
        /\ handler.phase = "answered" =>
               /\ handler.request.method # "POST" => handler.status = 405
               /\ (handler.request.method = "POST"
                      /\ HasAllFields(handler.request)
                      /\ handler.request.payload.tipo # "inclusao_pedido")
                     => (handler.status = 200 /\ ~handler.uploaded)
               /\ (handler.request.method = "POST"
                      /\ handler.request.data = "json"
                      /\ ~HasAllFields(handler.request))
                     => (handler.status = 400 /\ ~handler.uploaded)
               /\ (handler.attempts = 3 /\ ~handler.uploaded) => handler.status = 500

\* The claim but for the payloads that are not JSON objects.
ObjectPayloadOutcomes ==
    (handler # <<>> /\ handler.request.data = "json"
        /\ handler.request.payload.kind # "object")
    \/ C30_WebhookOutcomes

====
